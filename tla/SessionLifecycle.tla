---------------------------- MODULE SessionLifecycle ----------------------------
(***************************************************************************)
(* What one process promises to whoever controls it, as the comments on    *)
(* RtpEngine and IControlChannel tell it: it serves, it carries one stream *)
(* at most, asked to stop it stops serving for good, the stream ceases     *)
(* only then, and nothing is left of it when the process is gone. Session  *)
(* is the detailed specification.                                          *)
(***************************************************************************)

VARIABLES
  phase,    \* "serving", "closing" once somebody asked to stop, "ended"
  stream    \* "none", "live" from the request on, "ceased"

lifeVars == <<phase, stream>>

LifeInit == phase = "serving" /\ stream = "none"

Begin ==
  /\ phase = "serving" /\ stream = "none"
  /\ stream' = "live"
  /\ UNCHANGED phase

Close ==
  /\ phase = "serving"
  /\ phase' = "closing"
  /\ UNCHANGED stream

Cease ==
  /\ phase = "closing" /\ stream = "live"
  /\ stream' = "ceased"
  /\ UNCHANGED phase

End ==
  /\ phase = "closing" /\ stream # "live"
  /\ phase' = "ended"
  /\ UNCHANGED stream

LifeNext == Begin \/ Close \/ Cease \/ End

\* What may happen. That the end does come once it was asked for is stated with
\* the threads that bring it about, in Session.
LifeSafety == LifeInit /\ [][LifeNext]_lifeVars

===============================================================================
