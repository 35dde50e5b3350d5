---------------------------- MODULE SwitchRelays ----------------------------
(***************************************************************************)
(* The relays of the switch node (switch/src/main.cpp, updateRelays).      *)
(* Two relays with a common terminal belong to a channel; they switch one  *)
(* light, two lights, or the two directions of a blind.  They latch: a     *)
(* relay keeps its position when nothing drives it, also without power.    *)
(* `relays' is what buttons and bus ask for.  A coroutine compares it with *)
(* what it last drove and sends one word to the half bridges at a time.    *)
(*                                                                         *)
(* Bit i < 4 of the bytes `relays' and `known' is the state of relay i,    *)
(* bit i + 4 says that the state is not known since the power came.  The   *)
(* bytes are sets of bits.                                                 *)
(***************************************************************************)
EXTENDS Integers

CONSTANT Relays     (* relays of the instance: 0..3 on the board            *)

ASSUME RelaysAssumption ==
  /\ Relays \subseteq 0 .. 3
  /\ \A r \in Relays : (IF r % 2 = 0 THEN r + 1 ELSE r - 1) \in Relays

VARIABLES
  relays,    (* bits that are asked for                                    *)
  known,     (* bits that were driven, local variable relays of the code   *)
  driver,    (* "idle": waits at relayBarrier, "switching": word is sent   *)
             (*   and the contacts move, "release": half bridges go off    *)
  moving,    (* relays that the word on its way drives                     *)
  contacts   (* relays whose contact is closed, outlives the power         *)

relayVars == <<relays, known, driver, moving, contacts>>

Partner(r) == IF r % 2 = 0 THEN r + 1 ELSE r - 1

Unknown == {r + 4 : r \in Relays}

Bits == Relays \cup Unknown

Changed(r, asked) ==
  \/ (r \in asked) # (r \in known)
  \/ (r + 4 \in asked) # (r + 4 \in known)

\* mutant of Driven: both relays of a channel at once
DrivenAtOnce(asked) == {r \in Relays : Changed(r, asked)}

\* the relays that the next word drives: the common terminal has one polarity,
\* so that of two relays that change to opposite positions the one that opens goes first
Driven(asked) ==
  {r \in Relays : /\ Changed(r, asked)
                  /\ \/ ~Changed(Partner(r), asked)
                     \/ r \notin asked
                     \/ (r \in asked) = (Partner(r) \in asked)}

\* build the word and start to send it
Drive(asked) ==
  /\ moving' = Driven(asked)
  /\ known' = {b \in Bits : b \in (IF b % 4 \in Driven(asked) THEN asked ELSE known)}
  /\ driver' = "switching"

\* mutant of WaitOrDrive: waits before it compares
WaitOrDriveUnchecked(asked) ==
  /\ driver' = "idle"
  /\ UNCHANGED <<known, moving>>

\* the coroutine compares before it waits
WaitOrDrive(asked) ==
  IF asked = known
  THEN driver' = "idle" /\ UNCHANGED <<known, moving>>
  ELSE Drive(asked)

\* a button or a message asks for other states and calls relayBarrier.resumeFirst,
\* which runs the coroutine at once when it waits there
Ask(asked) ==
  /\ relays' = asked
  /\ IF driver = "idle"
     THEN WaitOrDrive(asked)
     ELSE UNCHANGED <<known, moving, driver>>
  /\ UNCHANGED contacts

\* the word was sent and RELAY_TIME is over
ContactsMoved ==
  /\ driver = "switching"
  /\ contacts' = (contacts \ moving) \cup (moving \cap known)
  /\ IF relays = known
     THEN driver' = "release" /\ moving' = {} /\ UNCHANGED known
     ELSE Drive(relays)
  /\ UNCHANGED relays

\* all half bridges are off
Released ==
  /\ driver = "release"
  /\ WaitOrDrive(relays)
  /\ UNCHANGED <<relays, contacts>>

\* mutant of RelaysRestart: the relays are taken for open
RelaysRestartOpen ==
  /\ relays' = {}
  /\ known' = {}
  /\ moving' = {}
  /\ driver' = "idle"
  /\ \E moved \in SUBSET moving : contacts' = (contacts \ moved) \cup (moved \cap known)

\* the power fails and returns; contacts on the move end up here or there
RelaysRestart ==
  /\ relays' = Unknown
  /\ known' = Unknown
  /\ moving' = {}
  /\ driver' = "idle"
  /\ \E moved \in SUBSET moving : contacts' = (contacts \ moved) \cup (moved \cap known)

RelaysInit ==
  /\ relays = Unknown
  /\ known = Unknown
  /\ driver = "idle"
  /\ moving = {}
  /\ contacts \in SUBSET Relays

RelaysNext ==
  \/ \E asked \in SUBSET Bits : asked \cap Unknown \subseteq relays /\ Ask(asked)
  \/ ContactsMoved
  \/ Released
  \/ RelaysRestart

RelaysSpec == RelaysInit /\ [][RelaysNext]_relayVars

RelaysTypeOK ==
  /\ relays \subseteq Bits
  /\ known \subseteq Bits
  /\ driver \in {"idle", "switching", "release"}
  /\ moving \subseteq Relays
  /\ contacts \subseteq Relays

\* The two relays of a channel have a common terminal; a word never opens one of them and
\* closes the other (the conditions with a0 and a1 in updateRelays).
CommonTerminal ==
  \A r \in moving : Partner(r) \in moving => ((r \in known) <=> (Partner(r) \in known))

\* Both directions of a blind are never on at the same time on the way from one to the
\* other: a contact closes next to a closed one only when both are wanted, or when nobody
\* asked for the other one since the power came.
BlindInterlock ==
  [][\A r \in contacts' \ contacts :
       Partner(r) \in contacts' =>
         Partner(r) \in known \/ Partner(r) + 4 \in known]_relayVars
=============================================================================
