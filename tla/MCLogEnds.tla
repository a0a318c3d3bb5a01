------------------------------ MODULE MCLogEnds ------------------------------
(***************************************************************************)
(* How reading logs ends: one source in LogSource, the loop that owns the  *)
(* sources of a session in LogFollow, or the page that asks for sessions   *)
(* in LogPage. An execution is about one of them; the others are over, or  *)
(* were never opened, and ask for nothing.                                 *)
(***************************************************************************)
EXTENDS MCLogSource, LogFollow, LogPage

VARIABLE part

SourceOver ==
    /\ log = <<>> /\ ended = FALSE /\ terminal = FALSE /\ cancelled = TRUE
    /\ conn = NoStream /\ cursor = NewCursor
    /\ pc = "done" /\ held = Nothing /\ failures = 0
    /\ outcome = "canceled" /\ restarts = 0 /\ out = <<>>

FollowOver ==
    /\ cluster = [n \in Names |-> [gen |-> 1, matches |-> FALSE]]
    /\ changes = 0 /\ finite = FALSE /\ watching = FALSE /\ events = <<>>
    /\ pods = <<>> /\ sources = [k \in Keys |-> Unknown] /\ readers = NoCounts
    /\ done = <<>> /\ active = 0 /\ capWarned = FALSE /\ joined = NoCounts
    /\ owner = "closed" /\ over = TRUE

MCInit ==
    /\ LogPageInit
    /\ \/ part = "source" /\ Init /\ FollowOver
       \/ part = "follow" /\ FollowInit /\ SourceOver
       \/ part = "page" /\ FollowOver /\ SourceOver

MCNext ==
    \/ part = "source" /\ Next /\ UNCHANGED <<followVars, logPageVars, part>>
    \/ part = "follow" /\ FollowNext /\ UNCHANGED <<vars, logPageVars, part>>
    \/ part = "page" /\ LogPageNext /\ UNCHANGED <<vars, followVars, part>>

MCSpec ==
    /\ MCInit /\ [][MCNext]_<<vars, followVars, logPageVars, part>>
    /\ SourceFairness /\ FollowFairness /\ LogPageFairness
=============================================================================
