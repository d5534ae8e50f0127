------------------------------ MODULE MCCronRegistry ------------------------------
(***************************************************************************)
(* CronRegistry on small instances: two replicas, two functions and three  *)
(* jobs, of which a tick reads two, over a day of four units.              *)
(***************************************************************************)
EXTENDS CronRegistry, TLC

CONSTANTS f, g

\* A daily job; an interval that wraps to one below the platform's minimum and
\* one that wraps to nothing; and a cron expression that matches no date.
Daily == [kind |-> "daily", at |-> 1]
Fine  == [kind |-> "interval", at |-> 2 * Word + 1]
Never == [kind |-> "interval", at |-> Word]
NoDay == [kind |-> "cron", at |-> 0]

MCSchedules == {Daily, Fine, Never, NoDay}

Job(s) == [module |-> f, schedule |-> s]

\* Both functions declare job 3, which goes over to whoever deploys last.  The
\* whole bundle of f fills the window with a job that never runs and leaves job 3
\* beyond it; its other bundle drops two jobs and lets the third in.
MCBundles ==
  f :> {1 :> Job(Never) @@ 2 :> Job(Fine) @@ 3 :> Job(Daily), 2 :> Job(NoDay)}
    @@ g :> {3 :> Job(Daily)}
================================================================================
