-------------------------- MODULE PushRegistrations --------------------------
(***************************************************************************)
(* What the push part of the backend promises for one user, whatever tasks *)
(* and transactions stand behind it: a set of registered devices, which    *)
(* the user adds to and a push service takes away from, and a switch.      *)
(* While it is on, an announcement concerns every device that is           *)
(* registered at that instant; a message goes only to a device that an     *)
(* announcement concerned, perhaps more than once, perhaps never.          *)
(*                                                                         *)
(* PushPipeline.tla is the design that implements this module.             *)
(***************************************************************************)
CONSTANTS Devices,      \* endpoints of devices
          Known,        \* the devices of a user from before, of Devices
          Canonical     \* the endpoint a push service moves each one to

VARIABLES enabled,      \* the user wants to be notified
          registered,   \* the devices to notify
          acked,        \* devices the user was told are registered
          dead,         \* devices a push service reported as invalid
          due,          \* devices an announcement concerns and may yet reach
          pinged        \* devices a message was delivered to

vars == <<enabled, registered, acked, dead, due, pinged>>

Init ==
    /\ enabled = (Known # {})
    /\ registered = Known /\ acked = Known
    /\ dead = {} /\ due = {} /\ pinged = {}

\* The user turns notifications on from device e.
Register(e) ==
    /\ enabled' = TRUE
    /\ registered' = registered \cup {e}
    /\ acked' = acked \cup {e}
    /\ UNCHANGED <<dead, due, pinged>>

TurnOff ==
    /\ enabled' = FALSE
    /\ UNCHANGED <<registered, acked, dead, due, pinged>>

\* A change of the schedule is announced to all devices of the user.
Announce ==
    /\ enabled
    /\ due' = due \cup registered
    /\ UNCHANGED <<enabled, registered, acked, dead, pinged>>

\* Devices will not be reached any more, or have been.
Settle ==
    /\ due' \in SUBSET due
    /\ UNCHANGED <<enabled, registered, acked, dead, pinged>>

\* A message is handed to the push service of device e, which delivers it,
\* or reports the device as invalid, or both; it may have to be handed in
\* again.
Ping(e) ==
    /\ e \in due
    /\ pinged' \in {pinged, pinged \cup {e}}
    /\ dead' \in {dead, dead \cup {e}}
    /\ due' \in {due, due \ {e}}
    /\ UNCHANGED <<enabled, registered, acked>>

\* A device that was reported is taken off the list, or becomes another one.
TakeOff(e) ==
    /\ e \in registered \cap dead
    /\ \/ registered' = registered \ {e}
       \/ registered' \in {r \cup {Canonical[e]} : r \in {registered, registered \ {e}}}
    /\ due' \in {due, due \ {e}}
    /\ UNCHANGED <<enabled, acked, dead, pinged>>

Next ==
    \/ TurnOff \/ Announce \/ Settle
    \/ \E e \in Devices : Register(e) \/ Ping(e) \/ TakeOff(e)

Spec == Init /\ [][Next]_vars
=============================================================================
