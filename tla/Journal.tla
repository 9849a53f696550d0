------------------------------ MODULE Journal ------------------------------
(***************************************************************************)
(* What a session's log promises the host, whatever happens to the calls   *)
(* that reach it: an append takes effect at most once, all of it at the    *)
(* end of the log, and it is acknowledged only if it took effect.          *)
(***************************************************************************)
EXTENDS Sequences

VARIABLES
  log,      \* the events of the session, in order
  applied,  \* the appends that took effect
  acked     \* the appends whose caller was told so

vars == <<log, applied, acked>>

Init == log = <<>> /\ applied = {} /\ acked = {}

Apply(q) ==
  /\ q \notin applied
  /\ log' = log \o q.events
  /\ applied' = applied \cup {q}

\* One call takes effect, is acknowledged, or both.
Next ==
  \/ \E q \in applied' \ applied :
       Apply(q) /\ acked' \in {acked, acked \cup {q}}
  \/ \E q \in applied :
       acked' = acked \cup {q} /\ UNCHANGED <<log, applied>>

Spec == Init /\ [][Next]_vars

=============================================================================
