------------------------- MODULE SwitchRelaysProofs -------------------------
(* Proofs about SwitchRelays, for every sequence of requests. *)
EXTENDS SwitchRelays, TLAPS

\* half bridges drive contacts only while a word is switching
OffUnlessSwitching == driver # "switching" => moving = {}

\* a closed contact that is not on the move was driven there, or nobody drove it since the
\* power came
ClosedIsKnown ==
  \A r \in Relays \ moving : r \in contacts => r \in known \/ r + 4 \in known

RelaysInv == RelaysTypeOK /\ OffUnlessSwitching /\ CommonTerminal /\ ClosedIsKnown

LEMMA PartnerOfPartner ==
  ASSUME NEW r \in Relays
  PROVE  Partner(r) \in Relays /\ Partner(r) # r /\ Partner(Partner(r)) = r
<1>1. r \in 0 .. 3 /\ (IF r % 2 = 0 THEN r + 1 ELSE r - 1) \in Relays
  BY RelaysAssumption
<1>2. r = 0 \/ r = 1 \/ r = 2 \/ r = 3
  BY <1>1
<1> QED
  BY <1>1, <1>2 DEF Partner

\* what a word drives becomes known, all the rest stays as it was
LEMMA KnownAfterDrive ==
  ASSUME NEW asked \in SUBSET Bits, known \subseteq Bits, Drive(asked)
  PROVE  /\ known' \subseteq Bits
         /\ moving' \subseteq Relays
         /\ \A r \in moving' : r \in known' <=> r \in asked
         /\ \A r \in Relays \ moving' : /\ r \in known' <=> r \in known
                                        /\ r + 4 \in known' <=> r + 4 \in known
<1>1. /\ moving' = Driven(asked)
      /\ known' = {b \in Bits : b \in (IF b % 4 \in Driven(asked) THEN asked ELSE known)}
  BY DEF Drive
<1>2. Driven(asked) \subseteq Relays
  BY DEF Driven
<1>3. ASSUME NEW r \in Relays
      PROVE  r % 4 = r /\ (r + 4) % 4 = r /\ r \in Bits /\ r + 4 \in Bits
  <2>1. r \in 0 .. 3
    BY RelaysAssumption
  <2>2. r % 4 = r /\ (r + 4) % 4 = r
    BY <2>1
  <2>3. r \in Bits /\ r + 4 \in Bits
    BY DEF Bits, Unknown
  <2> QED
    BY <2>2, <2>3
<1> QED
  BY <1>1, <1>2, <1>3

\* of two partners in one word both open or both close
LEMMA OneWay ==
  ASSUME NEW asked, NEW r \in Driven(asked), Partner(r) \in Driven(asked)
  PROVE  r \in asked <=> Partner(r) \in asked
<1>1. r \in Relays
  BY DEF Driven
<1>2. Partner(Partner(r)) = r
  BY <1>1, PartnerOfPartner
<1> QED
  BY <1>2 DEF Driven

\* a new word keeps the invariant when the contacts are where the last one put them
LEMMA DriveKeeps ==
  ASSUME RelaysInv, NEW asked \in SUBSET Bits, Drive(asked), relays' \subseteq Bits,
         contacts' = (contacts \ moving) \cup (moving \cap known)
  PROVE  RelaysInv'
<1>0. known \subseteq Bits /\ moving \subseteq Relays /\ contacts \subseteq Relays
  BY DEF RelaysInv, RelaysTypeOK
<1>1. /\ known' \subseteq Bits
      /\ moving' \subseteq Relays
      /\ \A r \in moving' : r \in known' <=> r \in asked
      /\ \A r \in Relays \ moving' : /\ r \in known' <=> r \in known
                                     /\ r + 4 \in known' <=> r + 4 \in known
  BY <1>0, KnownAfterDrive
<1>2. driver' = "switching" /\ moving' = Driven(asked)
  BY DEF Drive
<1>3. RelaysTypeOK'
  BY <1>0, <1>1, <1>2 DEF RelaysTypeOK
<1>4. OffUnlessSwitching'
  BY <1>2 DEF OffUnlessSwitching
<1>5. CommonTerminal'
  <2> SUFFICES ASSUME NEW r \in moving', Partner(r) \in moving'
               PROVE  r \in known' <=> Partner(r) \in known'
    BY DEF CommonTerminal
  <2>1. r \in asked <=> Partner(r) \in asked
    BY <1>2, OneWay
  <2> QED
    BY <1>1, <2>1
<1>6. ClosedIsKnown'
  <2> SUFFICES ASSUME NEW r \in Relays \ moving', r \in contacts'
               PROVE  r \in known' \/ r + 4 \in known'
    BY DEF ClosedIsKnown
  <2>1. r \in known \/ r + 4 \in known
    BY DEF RelaysInv, ClosedIsKnown
  <2> QED
    BY <1>1, <2>1
<1> QED
  BY <1>3, <1>4, <1>5, <1>6 DEF RelaysInv

LEMMA WaitOrDriveKeeps ==
  ASSUME RelaysInv, NEW asked \in SUBSET Bits, WaitOrDrive(asked), relays' \subseteq Bits,
         driver # "switching", contacts' = contacts
  PROVE  RelaysInv'
<1>1. moving = {}
  BY DEF RelaysInv, OffUnlessSwitching
<1>2. CASE asked = known
  <2>1. driver' = "idle" /\ UNCHANGED <<known, moving, contacts>>
    BY <1>2 DEF WaitOrDrive
  <2> QED
    BY <1>1, <2>1 DEF RelaysInv, RelaysTypeOK, OffUnlessSwitching, CommonTerminal, ClosedIsKnown
<1>3. CASE asked # known
  <2>1. Drive(asked)
    BY <1>3 DEF WaitOrDrive
  <2>2. contacts' = (contacts \ moving) \cup (moving \cap known)
    BY <1>1
  <2> QED
    BY <2>1, <2>2, DriveKeeps
<1> QED
  BY <1>2, <1>3

LEMMA AskKeeps ==
  ASSUME RelaysInv, NEW asked \in SUBSET Bits, Ask(asked)
  PROVE  RelaysInv'
<1>1. relays' = asked /\ contacts' = contacts
  BY DEF Ask
<1>2. CASE driver = "idle"
  <2>1. WaitOrDrive(asked)
    BY <1>2 DEF Ask
  <2> QED
    BY <1>1, <1>2, <2>1, WaitOrDriveKeeps
<1>3. CASE driver # "idle"
  <2>1. UNCHANGED <<known, moving, driver>>
    BY <1>3 DEF Ask
  <2> QED
    BY <1>1, <2>1 DEF RelaysInv, RelaysTypeOK, OffUnlessSwitching, CommonTerminal, ClosedIsKnown
<1> QED
  BY <1>2, <1>3

LEMMA ContactsMovedKeeps ==
  ASSUME RelaysInv, ContactsMoved
  PROVE  RelaysInv'
<1>1. /\ driver = "switching" /\ relays' = relays /\ relays \in SUBSET Bits
      /\ contacts' = (contacts \ moving) \cup (moving \cap known)
  BY DEF ContactsMoved, RelaysInv, RelaysTypeOK
<1>2. CASE relays = known
  <2>1. driver' = "release" /\ moving' = {} /\ known' = known
    BY <1>2 DEF ContactsMoved
  <2> QED
    BY <1>1, <2>1 DEF RelaysInv, RelaysTypeOK, OffUnlessSwitching, CommonTerminal, ClosedIsKnown
<1>3. CASE relays # known
  <2>1. Drive(relays)
    BY <1>3 DEF ContactsMoved
  <2> QED
    BY <1>1, <2>1, DriveKeeps
<1> QED
  BY <1>2, <1>3

LEMMA ReleasedKeeps ==
  ASSUME RelaysInv, Released
  PROVE  RelaysInv'
<1>1. /\ driver = "release" /\ relays' = relays /\ contacts' = contacts
      /\ relays \in SUBSET Bits /\ WaitOrDrive(relays)
  BY DEF Released, RelaysInv, RelaysTypeOK
<1> QED
  BY <1>1, WaitOrDriveKeeps

LEMMA RestartKeeps ==
  ASSUME RelaysInv, RelaysRestart
  PROVE  RelaysInv'
<1>1. /\ relays' = Unknown /\ known' = Unknown /\ moving' = {} /\ driver' = "idle"
      /\ contacts' \subseteq Relays
  BY DEF RelaysRestart, RelaysInv, RelaysTypeOK
<1>2. \A r \in Relays : r + 4 \in Unknown
  BY DEF Unknown
<1> QED
  BY <1>1, <1>2
  DEF RelaysInv, RelaysTypeOK, OffUnlessSwitching, CommonTerminal, ClosedIsKnown, Bits

LEMMA RelaysInitInv == RelaysInit => RelaysInv
<1>1. \A r \in Relays : r + 4 \in Unknown
  BY DEF Unknown
<1> QED
  BY <1>1 DEF RelaysInit, RelaysInv, RelaysTypeOK, OffUnlessSwitching, CommonTerminal,
              ClosedIsKnown, Bits

LEMMA RelaysStep == RelaysInv /\ [RelaysNext]_relayVars => RelaysInv'
<1> SUFFICES ASSUME RelaysInv, [RelaysNext]_relayVars PROVE RelaysInv'
  OBVIOUS
<1>1. CASE \E asked \in SUBSET Bits : asked \cap Unknown \subseteq relays /\ Ask(asked)
  BY <1>1, AskKeeps
<1>2. CASE ContactsMoved
  BY <1>2, ContactsMovedKeeps
<1>3. CASE Released
  BY <1>3, ReleasedKeeps
<1>4. CASE RelaysRestart
  BY <1>4, RestartKeeps
<1>5. CASE UNCHANGED relayVars
  BY <1>5 DEF relayVars, RelaysInv, RelaysTypeOK, OffUnlessSwitching, CommonTerminal,
              ClosedIsKnown
<1> QED
  BY <1>1, <1>2, <1>3, <1>4, <1>5 DEF RelaysNext

\* a contact closes only when the word on its way closes it
LEMMA ClosingStep ==
  ASSUME RelaysInv, [RelaysNext]_relayVars, NEW r \in contacts' \ contacts,
         Partner(r) \in contacts'
  PROVE  Partner(r) \in known \/ Partner(r) + 4 \in known
<1>1. \/ contacts' = contacts
      \/ \E moved \in SUBSET moving : contacts' = (contacts \ moved) \cup (moved \cap known)
  BY DEF RelaysNext, relayVars, Ask, ContactsMoved, Released, RelaysRestart
<1>2. r \in moving /\ r \in known
  BY <1>1
<1>3. r \in Relays /\ moving \subseteq Relays
  BY <1>2 DEF RelaysInv, RelaysTypeOK
<1>4. Partner(r) \in Relays
  BY <1>3, PartnerOfPartner
<1>5. CASE Partner(r) \in moving
  BY <1>2, <1>5 DEF RelaysInv, CommonTerminal
<1>6. CASE Partner(r) \notin moving
  <2>1. Partner(r) \in contacts
    BY <1>1, <1>6
  <2> QED
    BY <1>4, <1>6, <2>1 DEF RelaysInv, ClosedIsKnown
<1> QED
  BY <1>5, <1>6

\* Whatever is asked for and whenever the power fails, no word opens one relay of a channel
\* and closes the other.
THEOREM RelaysCommonTerminal == RelaysSpec => []CommonTerminal
<1>1. RelaysInv => CommonTerminal
  BY DEF RelaysInv
<1> QED
  BY RelaysInitInv, RelaysStep, <1>1, PTL DEF RelaysSpec

\* Whatever is asked for and whenever the power fails, no contact closes next to a closed one
\* that should be open.
THEOREM RelaysBlindInterlock == RelaysSpec => BlindInterlock
<1>1. RelaysInv /\ [RelaysNext]_relayVars =>
        [\A r \in contacts' \ contacts :
           Partner(r) \in contacts' =>
             Partner(r) \in known \/ Partner(r) + 4 \in known]_relayVars
  BY ClosingStep
<1> QED
  BY RelaysInitInv, RelaysStep, <1>1, PTL DEF RelaysSpec, BlindInterlock
=============================================================================
