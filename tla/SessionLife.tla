----------------------------- MODULE SessionLife -----------------------------
(***************************************************************************)
(* What a session promises to those who start and stop it, whatever its    *)
(* threads do: TestSession and ReceiverSession implement it.  Its threads  *)
(* exist only between start and stop, they use the session's objects (the  *)
(* socket, the engine) only while these exist, and once it has stopped     *)
(* nothing of it is left.                                                  *)
(***************************************************************************)

CONSTANT Threads

VARIABLES
  phase,   \* "stopped", "starting", "started" or "stopping"
  usable,  \* the socket and the engine exist
  alive,   \* the threads that were made and not joined
  using    \* the threads that use the socket or the engine

vars == <<phase, usable, alive, using>>

Init ==
  /\ phase = "stopped"
  /\ usable = FALSE
  /\ alive = {}
  /\ using = {}

-----------------------------------------------------------------------------
Start ==
  /\ phase = "stopped"
  /\ phase' = "starting"
  /\ UNCHANGED <<usable, alive, using>>

Fail ==
  /\ phase = "starting" /\ ~usable
  /\ phase' = "stopped"
  /\ UNCHANGED <<usable, alive, using>>

Equip ==
  /\ phase = "starting"
  /\ usable' = TRUE
  /\ UNCHANGED <<phase, alive, using>>

Launch(t) ==
  /\ phase = "starting" /\ usable
  /\ t \notin alive
  /\ alive' = alive \cup {t}
  /\ UNCHANGED <<phase, usable, using>>

Started ==
  /\ phase = "starting" /\ alive = Threads
  /\ phase' = "started"
  /\ UNCHANGED <<usable, alive, using>>

Use(t) ==
  /\ t \in alive /\ usable
  /\ using' = using \cup {t}
  /\ UNCHANGED <<phase, usable, alive>>

Leave(t) ==
  /\ using' = using \ {t}
  /\ UNCHANGED <<phase, usable, alive>>

Stop ==
  /\ phase = "started"
  /\ phase' = "stopping"
  /\ UNCHANGED <<usable, alive, using>>

Join(t) ==
  /\ phase = "stopping"
  /\ t \in alive \ using
  /\ alive' = alive \ {t}
  /\ UNCHANGED <<phase, usable, using>>

Dispose ==
  /\ phase = "stopping" /\ alive = {}
  /\ usable' = FALSE
  /\ UNCHANGED <<phase, alive, using>>

Stopped ==
  /\ phase = "stopping" /\ ~usable
  /\ phase' = "stopped"
  /\ UNCHANGED <<usable, alive, using>>

Next == \/ Start \/ Fail \/ Equip \/ Started \/ Stop \/ Dispose \/ Stopped
        \/ \E t \in Threads : Launch(t) \/ Use(t) \/ Leave(t) \/ Join(t)

Spec == Init /\ [][Next]_vars
=============================================================================
