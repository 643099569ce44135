---------------------------- MODULE VersionOrder ----------------------------
(***************************************************************************)
(* What a caller of xbps_version_cmpn is promised (spec section 3): the    *)
(* calls are answered one by one, in order, each at once and with the      *)
(* comparison Cmp of the two version strings, and every call is answered.  *)
(* Whatever the calls are, none is answered at first.  VersionCmp          *)
(* implements it with Cmp the whole-stream reference RefCmp.               *)
(***************************************************************************)
EXTENDS Sequences

CONSTANT Cmp(_)   \* the result a call must have

VARIABLES
    pending,  \* calls not yet answered
    log       \* answered calls: <<call, result>>

Init == log = <<>>

\* the first pending call is answered
Compare ==
    /\ pending # <<>>
    /\ log' = Append(log, <<Head(pending), Cmp(Head(pending))>>)
    /\ pending' = Tail(pending)

Spec == Init /\ [][Compare]_<<pending, log>> /\ WF_<<pending, log>>(Compare)
=============================================================================
