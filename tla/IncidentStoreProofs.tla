------------------------ MODULE IncidentStoreProofs ------------------------
(***************************************************************************)
(* Incidents for any number of incidents, impacts, runs and mails.         *)
(*                                                                         *)
(* Types, generations and reopening are proved for every value of the      *)
(* constants.  Two results have a hypothesis that the code does not        *)
(* enforce, and each fails without it: CreditIsReached needs producers     *)
(* that all write one state_version, PassedOverIsTold needs that nothing   *)
(* is decided outside the digests.                                         *)
(***************************************************************************)
EXTENDS IncidentStore, TLAPS

\* What a tick selected, and what was reserved.
Mails == {selected} \cup {mail[s] : s \in Slots}

\* An incident the store has not seen has nothing recorded.
UnknownIsBlank ==
    \A i \in Incidents : ~Known(i) =>
        /\ generation[i] = 0 /\ version[i] = 0
        /\ \A p \in Impacts : impact[<<i, p>>] = "none"

\* A known incident is in a generation, and an impact is recorded with the
\* generation it was born in.
BirthsRecorded ==
    /\ \A i \in Incidents : Known(i) => generation[i] > 0
    /\ \A i \in Incidents, a \in Impacts : impact[<<i, a>>] = "none" <=> born[<<i, a>>] = 0

BirthInv == UnknownIsBlank /\ BirthsRecorded /\ GenerationsHaveImpacts

\* A known incident has at least the version any envelope can name.
AtLeastWritten == \A i \in Incidents : Known(i) => \A v \in Versions : v <= version[i]

\* What waits for reserveCritical names a version that was reached; a mail too.
DueIsReached == \A c \in due : Known(c.incident) /\ c.version <= version[c.incident]
Reached(m)   == \A n \in m : n.version <= version[n.incident]

CreditInv ==
    /\ UnknownIsBlank /\ AtLeastWritten /\ DueIsReached
    /\ \A m \in Mails : Reached(m)
    /\ CreditIsReached

\* A mail says one thing of an incident, and of its present version it says the
\* lifecycle that it has.
Truthful(m) ==
    /\ Reached(m)
    /\ \A n \in m, o \in m : n.incident = o.incident => n = o
    /\ \A n \in m : n.version = version[n.incident] => n.lifecycle = lifecycle[n.incident]

ToldInv ==
    /\ UnknownIsBlank
    /\ \A i \in Incidents : Known(i) => version[i] > 0
    /\ due = {}
    /\ \A m \in Mails : Truthful(m)
    /\ CreditIsReached /\ \A i \in Incidents : told[i] <= version[i]
    /\ PassedOverIsTold

-----------------------------------------------------------------------------
(* What one envelope does to the store. *)

LEMMA EnvelopeFields ==
  ASSUME NEW e \in Envelope
  PROVE  /\ e.lifecycle \in Lifecycles /\ e.impact \in Impacts /\ e.new \in BOOLEAN
         /\ e.run \in Runs /\ e.version \in Versions /\ e.version \in Nat /\ e.version > 0
         /\ e.severity \in {"high", "critical"} /\ e.integrity \in {"partial", "verified"}
<1>1. /\ e.lifecycle \in Lifecycles /\ e.impact \in Impacts /\ e.new \in BOOLEAN
      /\ e.run \in Runs /\ e.version \in Versions
      /\ e.severity \in Severities /\ e.integrity \in Integrities
  BY DEF Envelope
<1>2. e.version \in Nat /\ e.version # 0
  BY <1>1, StoreAssumption
<1>3. e.severity \in {"high", "critical"} /\ e.integrity \in {"partial", "verified"}
  BY <1>1, StoreAssumption
<1>4. QED
  BY <1>1, <1>2, <1>3

LEMMA KnownIsSomething == Lifecycles \subseteq Lifecycles \cup {"none"} /\ "none" \notin Lifecycles
BY DEF Lifecycles, Live, Historical

LEMMA NextInTypes ==
  ASSUME TypeOK, NEW i \in Incidents, NEW e \in Envelope
  PROVE  /\ NextLifecycle(i, e) \in Lifecycles /\ NextImpact(i, e) \in Lifecycles
         /\ NextGeneration(i, e) \in Nat /\ NextVersion(i, e) \in Nat
         /\ NextSeverity(i, e) \in {"none", "high", "critical"}
         /\ NextIntegrity(i, e) \in {"none", "partial", "verified"}
<1>1. e.lifecycle \in Lifecycles /\ e.version \in Nat /\ <<i, e.impact>> \in Incidents \X Impacts
  BY EnvelopeFields
<1>2. NextLifecycle(i, e) \in Lifecycles
  BY <1>1 DEF TypeOK, NextLifecycle, Known
<1>3. NextImpact(i, e) \in Lifecycles
  BY <1>1 DEF TypeOK, NextImpact
<1>4. generation[i] \in Nat /\ version[i] \in Nat
  BY DEF TypeOK
<1>5. NextGeneration(i, e) \in Nat /\ NextVersion(i, e) \in Nat
  BY <1>1, <1>4 DEF NextGeneration, NextVersion
<1>6. QED
  BY <1>2, <1>3, <1>5, EnvelopeFields DEF TypeOK, NextSeverity, NextIntegrity

\* The rows of other incidents and of other impacts stay; the rows of this one
\* get what the Next operators say.
LEMMA EnvelopeStored ==
  ASSUME TypeOK, NEW i \in Incidents, NEW e \in Envelope, StoreEnvelope(i, e)
  PROVE  /\ lifecycle'[i] = NextLifecycle(i, e) /\ version'[i] = NextVersion(i, e)
         /\ generation'[i] = NextGeneration(i, e)
         /\ \A j \in Incidents \ {i} : /\ lifecycle'[j] = lifecycle[j]
                                       /\ version'[j] = version[j]
                                       /\ generation'[j] = generation[j]
         /\ impact'[<<i, e.impact>>] = NextImpact(i, e)
         /\ born'[<<i, e.impact>>] = IF born[<<i, e.impact>>] = 0 THEN NextGeneration(i, e)
                                                                  ELSE born[<<i, e.impact>>]
         /\ \A j \in Incidents, a \in Impacts : j # i \/ a # e.impact
                => impact'[<<j, a>>] = impact[<<j, a>>] /\ born'[<<j, a>>] = born[<<j, a>>]
<1>1. e.impact \in Impacts
  BY EnvelopeFields
<1>2. <<i, e.impact>> \in Incidents \X Impacts
  BY <1>1
<1>3. \A j \in Incidents, a \in Impacts : j # i \/ a # e.impact
        => <<j, a>> \in Incidents \X Impacts /\ <<j, a>> # <<i, e.impact>>
  OBVIOUS
<1>4. /\ impact' = [impact EXCEPT ![<<i, e.impact>>] = NextImpact(i, e)]
      /\ born' = [born EXCEPT ![<<i, e.impact>>] = IF born[<<i, e.impact>>] = 0
                                  THEN NextGeneration(i, e) ELSE born[<<i, e.impact>>]]
  BY DEF StoreEnvelope
<1>5. \A j \in Incidents, a \in Impacts : j # i \/ a # e.impact
          => impact'[<<j, a>>] = impact[<<j, a>>] /\ born'[<<j, a>>] = born[<<j, a>>]
  BY <1>3, <1>4 DEF TypeOK
<1>6. /\ impact'[<<i, e.impact>>] = NextImpact(i, e)
      /\ born'[<<i, e.impact>>] = IF born[<<i, e.impact>>] = 0 THEN NextGeneration(i, e)
                                                               ELSE born[<<i, e.impact>>]
  BY <1>2, <1>4 DEF TypeOK
<1>7. /\ lifecycle'[i] = NextLifecycle(i, e) /\ version'[i] = NextVersion(i, e)
      /\ generation'[i] = NextGeneration(i, e)
      /\ \A j \in Incidents \ {i} : /\ lifecycle'[j] = lifecycle[j]
                                    /\ version'[j] = version[j]
                                    /\ generation'[j] = generation[j]
  BY DEF StoreEnvelope, TypeOK
<1>8. QED
  BY <1>5, <1>6, <1>7

LEMMA EnvelopeTypes ==
  ASSUME TypeOK, NEW i \in Incidents, NEW e \in Envelope, StoreEnvelope(i, e)
  PROVE  /\ lifecycle'  \in [Incidents -> Lifecycles \cup {"none"}]
         /\ generation' \in [Incidents -> Nat]
         /\ version'    \in [Incidents -> Nat]
         /\ severity'   \in [Incidents -> {"none", "high", "critical"}]
         /\ integrity'  \in [Incidents -> {"none", "partial", "verified"}]
         /\ impact'     \in [Incidents \X Impacts -> Lifecycles \cup {"none"}]
         /\ born'       \in [Incidents \X Impacts -> Nat]
         /\ evidence'   \in [Runs -> Incidents \cup {NoIncident}]
<1>1. /\ NextLifecycle(i, e) \in Lifecycles /\ NextImpact(i, e) \in Lifecycles
      /\ NextGeneration(i, e) \in Nat /\ NextVersion(i, e) \in Nat
      /\ NextSeverity(i, e) \in {"none", "high", "critical"}
      /\ NextIntegrity(i, e) \in {"none", "partial", "verified"}
  BY NextInTypes
<1>2. lifecycle' \in [Incidents -> Lifecycles \cup {"none"}]
  BY <1>1 DEF StoreEnvelope, TypeOK
<1>3. generation' \in [Incidents -> Nat] /\ version' \in [Incidents -> Nat]
  BY <1>1 DEF StoreEnvelope, TypeOK
<1>4. /\ severity' \in [Incidents -> {"none", "high", "critical"}]
      /\ integrity' \in [Incidents -> {"none", "partial", "verified"}]
  BY <1>1 DEF StoreEnvelope, TypeOK
<1>5. impact' \in [Incidents \X Impacts -> Lifecycles \cup {"none"}]
  BY <1>1 DEF StoreEnvelope, TypeOK
<1>6. born' \in [Incidents \X Impacts -> Nat]
  BY <1>1 DEF StoreEnvelope, TypeOK
<1>7. evidence' \in [Runs -> Incidents \cup {NoIncident}]
  BY DEF StoreEnvelope, TypeOK
<1>8. QED
  BY <1>2, <1>3, <1>4, <1>5, <1>6, <1>7

-----------------------------------------------------------------------------
(* Types *)

LEMMA NamedIsItem ==
  ASSUME NEW i \in Incidents, NEW v \in Nat, NEW l \in Lifecycles
  PROVE  Named(i, v, l) \in MailItem
BY DEF Named, MailItem

LEMMA DigestIsMail == TypeOK => Digest \in SUBSET MailItem
<1> SUFFICES ASSUME TypeOK, NEW i \in Incidents, Announce(i)
             PROVE  Named(i, version[i], lifecycle[i]) \in MailItem
  BY DEF Digest
<1>1. version[i] \in Nat /\ lifecycle[i] \in Lifecycles
  BY DEF TypeOK, Announce, Lifecycles, Live
<1>2. QED
  BY <1>1, NamedIsItem

LEMMA ReserveTypes ==
  ASSUME TypeOK, NEW m \in SUBSET MailItem, Reserve(m)
  PROVE  mail' \in [Slots -> SUBSET MailItem]
BY DEF Reserve, TypeOK

LEMMA VersionOf ==
  ASSUME NEW i \in Incidents, NEW m \in SUBSET MailItem
  PROVE  /\ Version(i, m) \in Nat
         /\ \/ Version(i, m) = 0 /\ \A n \in m : n.incident # i
            \/ \E n \in m : n.incident = i /\ n.version = Version(i, m)
<1>1. CASE \E n \in m : n.incident = i
  <2> DEFINE n == CHOOSE n \in m : n.incident = i
  <2>1. n \in m /\ n.incident = i
    BY <1>1
  <2>2. Version(i, m) = n.version
    BY <1>1 DEF Version
  <2>3. n.version \in Nat
    BY <2>1 DEF MailItem
  <2>4. QED
    BY <2>1, <2>2, <2>3
<1>2. CASE ~\E n \in m : n.incident = i
  BY <1>2 DEF Version
<1>3. QED
  BY <1>1, <1>2

LEMMA LargerOf == \A m, n \in Nat : Larger(m, n) \in Nat /\ Larger(m, n) \in {m, n}
                                      /\ Larger(m, n) >= m /\ Larger(m, n) >= n
BY DEF Larger

LEMMA InitTypes == Init => TypeOK
<1> SUFFICES ASSUME Init PROVE TypeOK
  OBVIOUS
<1>1. impact \in [Incidents \X Impacts -> Lifecycles \cup {"none"}] /\ born \in [Incidents \X Impacts -> Nat]
  BY DEF Init
<1>2. /\ lifecycle \in [Incidents -> Lifecycles \cup {"none"}]
      /\ mail \in [Slots -> SUBSET MailItem] /\ selected \in SUBSET MailItem
  BY DEF Init
<1>3. /\ severity \in [Incidents -> {"none", "high", "critical"}]
      /\ integrity \in [Incidents -> {"none", "partial", "verified"}]
  BY DEF Init
<1>4. QED
  BY <1>1, <1>2, <1>3 DEF Init, TypeOK

LEMMA IngestTypes ==
  ASSUME TypeOK, NEW i \in Incidents, NEW e \in Envelope, Ingest(i, e)
  PROVE  TypeOK'
<1>1. StoreEnvelope(i, e) /\ UNCHANGED <<notified, outbox, told>>
  BY DEF Ingest
<1>2. due' \subseteq [incident : Incidents, impact : Impacts, version : Nat]
  <2>1. [incident |-> i, impact |-> e.impact, version |-> e.version]
          \in [incident : Incidents, impact : Impacts, version : Nat]
    BY EnvelopeFields
  <2>2. QED
    BY <2>1 DEF Ingest, TypeOK
<1>3. QED
  BY <1>1, <1>2, EnvelopeTypes DEF TypeOK, outbox

LEMMA ImportTypes ==
  ASSUME TypeOK, NEW i \in Incidents, NEW e \in Envelope, Import(i, e)
  PROVE  TypeOK'
<1>1. StoreEnvelope(i, e) /\ UNCHANGED <<due, outbox>>
  BY DEF Import
<1>2. version'[i] \in Nat
  BY <1>1, EnvelopeTypes
<1>3. notified' \in [Incidents -> Nat] /\ told' \in [Incidents -> Nat]
  BY <1>2 DEF Import, TypeOK
<1>4. QED
  BY <1>1, <1>3, EnvelopeTypes DEF TypeOK, outbox

LEMMA ReserveCriticalTypes == ASSUME TypeOK, NEW c \in due, ReserveCritical(c) PROVE TypeOK'
<1>1. c.incident \in Incidents /\ c.impact \in Impacts /\ c.version \in Nat
  BY DEF TypeOK
<1>2. generation[c.incident] \in Nat
  BY <1>1 DEF TypeOK
<1>3. criticals' \subseteq [incident : Incidents, impact : Impacts, generation : Nat]
  BY <1>1, <1>2 DEF ReserveCritical, TypeOK
<1>4. {Named(c.incident, c.version, "active")} \in SUBSET MailItem
  BY <1>1, NamedIsItem DEF Lifecycles, Live
<1>5. mail' \in [Slots -> SUBSET MailItem]
  BY <1>4, ReserveTypes DEF ReserveCritical, TypeOK
<1>6. UNCHANGED <<incident, notified, selected, digested, told>> /\ due' \subseteq due
  BY DEF ReserveCritical
<1>7. QED
  BY <1>3, <1>5, <1>6 DEF TypeOK, incident

LEMMA MailSentTypes == ASSUME TypeOK, NEW s \in Slots, MailSent(s) PROVE TypeOK'
<1>1. mail[s] \in SUBSET MailItem /\ RecoveredIn(mail[s]) \in SUBSET MailItem
  BY DEF TypeOK, RecoveredIn
<1>2. \A i \in Incidents : Version(i, mail[s]) \in Nat /\ Version(i, RecoveredIn(mail[s])) \in Nat
  BY <1>1, VersionOf
<1>3. \A i \in Incidents : notified[i] \in Nat /\ told[i] \in Nat
  BY DEF TypeOK
<1>4. notified' \in [Incidents -> Nat]
  BY <1>2, <1>3, LargerOf DEF MailSent, Credit
<1>5. told' \in [Incidents -> Nat]
  BY <1>2, <1>3, LargerOf DEF MailSent
<1>6. mail' \in [Slots -> SUBSET MailItem] /\ UNCHANGED <<incident, due, criticals, selected, digested>>
  BY DEF MailSent, TypeOK
<1>7. QED
  BY <1>4, <1>5, <1>6 DEF TypeOK, incident

LEMMA TypesKept == TypeOK /\ [Next]_vars => TypeOK'
<1> SUFFICES ASSUME TypeOK, [Next]_vars PROVE TypeOK'
  OBVIOUS
<1>1. ASSUME NEW i \in Incidents, NEW e \in Envelope, Ingest(i, e) PROVE TypeOK'
  BY <1>1, IngestTypes
<1>2. ASSUME NEW i \in Incidents, NEW e \in Envelope, Import(i, e) PROVE TypeOK'
  BY <1>2, ImportTypes
<1>3. ASSUME NEW c \in due, ReserveCritical(c) PROVE TypeOK'
  BY <1>3, ReserveCriticalTypes
<1>4. CASE TickSelect
  BY <1>4, DigestIsMail DEF TickSelect, TypeOK, incident
<1>5. CASE TickReserve
  <2>1. mail' \in [Slots -> SUBSET MailItem]
    BY <1>5, ReserveTypes DEF TickReserve, TypeOK
  <2>2. QED
    BY <1>5, <2>1 DEF TickReserve, TypeOK, incident
<1>6. CASE NewWindow
  BY <1>6 DEF NewWindow, TypeOK, incident
<1>7. CASE Evicted
  BY <1>7 DEF Evicted, TypeOK, incident
<1>8. ASSUME NEW s \in Slots, MailSent(s) PROVE TypeOK'
  BY <1>8, MailSentTypes
<1>9. ASSUME NEW s \in Slots, MailRefused(s) PROVE TypeOK'
  BY <1>9 DEF MailRefused, TypeOK, incident
<1>10. CASE UNCHANGED vars
  BY <1>10 DEF vars, TypeOK, incident, outbox
<1>11. QED
  BY <1>1, <1>2, <1>3, <1>4, <1>5, <1>6, <1>7, <1>8, <1>9, <1>10 DEF Next

\* Every variable stays in its domain, whatever the envelopes, decisions and
\* mails of the coordinator.
THEOREM TypeCorrect == Spec => []TypeOK
BY InitTypes, TypesKept, PTL DEF Spec

-----------------------------------------------------------------------------
(* Generations *)

LEMMA UnknownNow == \A i \in Incidents : ~Known(i) <=> lifecycle[i] = "none"
BY DEF Known

\* An envelope makes its incident known, and no incident unknown.
LEMMA EnvelopeKnown ==
  ASSUME TypeOK, NEW i \in Incidents, NEW e \in Envelope, StoreEnvelope(i, e)
  PROVE  /\ Known(i)'
         /\ \A j \in Incidents \ {i} : Known(j)' = Known(j)
<1>1. NextLifecycle(i, e) # "none"
  BY NextInTypes, KnownIsSomething
<1>2. QED
  BY <1>1, EnvelopeStored DEF Known

\* What an envelope leaves unknown stays blank.
LEMMA EnvelopeBlank ==
  ASSUME TypeOK, UnknownIsBlank, NEW i \in Incidents, NEW e \in Envelope, StoreEnvelope(i, e)
  PROVE  UnknownIsBlank'
<1> SUFFICES ASSUME NEW j \in Incidents, ~Known(j)'
             PROVE  /\ generation'[j] = 0 /\ version'[j] = 0
                    /\ \A a \in Impacts : impact'[<<j, a>>] = "none"
  BY DEF UnknownIsBlank
<1>1. j # i /\ ~Known(j)
  BY EnvelopeKnown
<1>2. /\ generation'[j] = generation[j] /\ version'[j] = version[j]
      /\ \A a \in Impacts : impact'[<<j, a>>] = impact[<<j, a>>]
  BY <1>1, EnvelopeStored
<1>3. QED
  BY <1>1, <1>2 DEF UnknownIsBlank

\* The generation counts the impacts that were new.
LEMMA EnvelopeBirths ==
  ASSUME TypeOK, BirthInv, NEW i \in Incidents, NEW e \in Envelope, StoreEnvelope(i, e)
  PROVE  BirthsRecorded' /\ GenerationsHaveImpacts'
<1> DEFINE p == <<i, e.impact>>
<1>1. e.impact \in Impacts /\ p \in Incidents \X Impacts
  BY EnvelopeFields
<1>2. /\ generation[i] \in Nat /\ NextGeneration(i, e) \in Nat
      /\ born[p] \in Nat /\ NextImpact(i, e) # "none"
  BY <1>1, NextInTypes, KnownIsSomething DEF TypeOK
<1>3. impact[p] = "none" <=> born[p] = 0
  BY <1>1 DEF BirthInv, BirthsRecorded
<1>4. /\ NextGeneration(i, e) > 0
      /\ \/ generation[i] = 0 /\ NextGeneration(i, e) = 1 /\ born[p] = 0
         \/ generation[i] > 0 /\ NextGeneration(i, e) = generation[i] + 1 /\ born[p] = 0
         \/ generation[i] > 0 /\ NextGeneration(i, e) = generation[i]
  <2>1. CASE Known(i)
    <3>1. generation[i] > 0
      BY <2>1 DEF BirthInv, BirthsRecorded
    <3>2. NewImpact(i, e) => born[p] = 0
      BY <1>3 DEF NewImpact
    <3>3. QED
      BY <1>2, <2>1, <3>1, <3>2 DEF NextGeneration
  <2>2. CASE ~Known(i)
    BY <1>1, <1>2, <1>3, <2>2 DEF BirthInv, UnknownIsBlank, NextGeneration
  <2>3. QED
    BY <2>1, <2>2
<1>5. /\ generation'[i] = NextGeneration(i, e)
      /\ impact'[p] = NextImpact(i, e)
      /\ born'[p] = IF born[p] = 0 THEN NextGeneration(i, e) ELSE born[p]
      /\ \A j \in Incidents \ {i} : generation'[j] = generation[j]
      /\ \A j \in Incidents, a \in Impacts : j # i \/ a # e.impact
             => impact'[<<j, a>>] = impact[<<j, a>>] /\ born'[<<j, a>>] = born[<<j, a>>]
  BY EnvelopeStored
<1> HIDE DEF p
<1>6. BirthsRecorded'
  <2>1. \A j \in Incidents : Known(j)' => generation'[j] > 0
    BY <1>4, <1>5, EnvelopeKnown DEF BirthInv, BirthsRecorded
  <2>2. ASSUME NEW j \in Incidents, NEW a \in Impacts
        PROVE  impact'[<<j, a>>] = "none" <=> born'[<<j, a>>] = 0
    <3>1. CASE j = i /\ a = e.impact
      BY <1>2, <1>4, <1>5, <3>1 DEF p
    <3>2. CASE j # i \/ a # e.impact
      BY <1>5, <3>2 DEF BirthInv, BirthsRecorded
    <3>3. QED
      BY <3>1, <3>2
  <2>3. QED
    BY <2>1, <2>2 DEF BirthsRecorded
<1>7. ASSUME NEW j \in Incidents, NEW g \in 1 .. generation'[j]
      PROVE  \E a \in Impacts : born'[<<j, a>>] = g
  <2>1. CASE j # i
    <3>1. g \in 1 .. generation[j]
      BY <1>5, <2>1
    <3>2. PICK a \in Impacts : born[<<j, a>>] = g
      BY <3>1 DEF BirthInv, GenerationsHaveImpacts
    <3>3. QED
      BY <1>5, <2>1, <3>2
  <2>2. CASE j = i /\ g \in 1 .. generation[i]
    <3>1. PICK a \in Impacts : born[<<i, a>>] = g
      BY <2>2 DEF BirthInv, GenerationsHaveImpacts
    <3>2. CASE a = e.impact
      <4>1. born[p] = g /\ g # 0
        BY <2>2, <3>1, <3>2 DEF p
      <4>2. QED
        BY <1>5, <2>2, <3>2, <4>1 DEF p
    <3>3. CASE a # e.impact
      BY <1>5, <2>2, <3>1, <3>3
    <3>4. QED
      BY <3>2, <3>3
  <2>3. CASE j = i /\ g \notin 1 .. generation[i]
    <3>1. g = NextGeneration(i, e) /\ born[p] = 0
      BY <1>2, <1>4, <1>5, <2>3
    <3>2. QED
      BY <1>1, <1>5, <2>3, <3>1 DEF p
  <2>4. QED
    BY <2>1, <2>2, <2>3
<1>8. QED
  BY <1>6, <1>7 DEF GenerationsHaveImpacts

LEMMA InitBlank == Init => BirthInv
<1> SUFFICES ASSUME Init PROVE BirthInv
  OBVIOUS
<1>1. \A i \in Incidents, a \in Impacts : impact[<<i, a>>] = "none" /\ born[<<i, a>>] = 0
  BY DEF Init
<1>2. \A i \in Incidents : generation[i] = 0 /\ version[i] = 0 /\ ~Known(i)
  BY DEF Init, Known
<1>3. \A i \in Incidents : 1 .. generation[i] = {}
  BY <1>2
<1>4. QED
  BY <1>1, <1>2, <1>3 DEF BirthInv, UnknownIsBlank, BirthsRecorded, GenerationsHaveImpacts

\* A step stores one envelope or leaves the incidents alone.
LEMMA StoredOrNot ==
  [Next]_vars => \/ \E i \in Incidents, e \in Envelope : StoreEnvelope(i, e)
                 \/ UNCHANGED incident
BY DEF Next, Ingest, Import, vars, ReserveCritical, TickSelect, TickReserve, NewWindow, Evicted,
   MailSent, MailRefused

LEMMA BlankKept == TypeOK /\ UnknownIsBlank /\ [Next]_vars => UnknownIsBlank'
<1>1. UnknownIsBlank /\ UNCHANGED incident => UnknownIsBlank'
  BY DEF incident, UnknownIsBlank, Known
<1>2. QED
  BY <1>1, StoredOrNot, EnvelopeBlank

LEMMA BirthsKept == TypeOK /\ BirthInv /\ [Next]_vars => BirthInv'
<1>1. ASSUME TypeOK, BirthInv, NEW i \in Incidents, NEW e \in Envelope, StoreEnvelope(i, e)
      PROVE  BirthInv'
  BY <1>1, EnvelopeBirths, EnvelopeBlank DEF BirthInv
<1>2. BirthInv /\ UNCHANGED incident => BirthInv'
  BY DEF incident, BirthInv, UnknownIsBlank, BirthsRecorded, GenerationsHaveImpacts, Known
<1>3. QED
  BY <1>1, <1>2, StoredOrNot

\* Every generation of an incident was opened by an impact born in it: no
\* replay, rerun or import opens one.
THEOREM GenerationsCount == Spec => []GenerationsHaveImpacts
<1>1. BirthInv => GenerationsHaveImpacts
  BY DEF BirthInv
<1>2. QED
  BY <1>1, InitTypes, TypesKept, InitBlank, BirthsKept, PTL DEF Spec

\* What is over is live again only through a new impact: without one the store
\* moves a lifecycle forward within the live ones.
LEMMA OnlyNewReopens ==
  ASSUME TypeOK, NEW i \in Incidents, NEW e \in Envelope, StoreEnvelope(i, e), NEW j \in Incidents,
         lifecycle[j] \in Historical \cup {"recovered"},
         lifecycle'[j] \in Live, lifecycle'[j] # lifecycle[j]
  PROVE  generation'[j] > generation[j]
<1>1. j = i /\ lifecycle'[i] = NextLifecycle(i, e) /\ generation'[i] = NextGeneration(i, e)
  BY EnvelopeStored
<1>2. Known(i) /\ generation[i] \in Nat
  BY <1>1 DEF Known, Historical, TypeOK
<1>3. CASE NewImpact(i, e)
  BY <1>1, <1>2, <1>3 DEF NextGeneration
<1>4. CASE ~NewImpact(i, e)
  <2>1. Forward(lifecycle[i], e.lifecycle) /\ lifecycle'[i] = e.lifecycle
    BY <1>1, <1>2, <1>4 DEF NextLifecycle
  <2>2. lifecycle[i] = "recovered"
    BY <1>1, <2>1 DEF Forward, Live, Historical
  <2>3. LifecycleRank["recovered"] = 3 /\ LifecycleRank["active"] = 1
        /\ LifecycleRank["recovery_pending"] = 2
    BY DEF LifecycleRank
  <2>4. e.lifecycle = "recovered"
    BY <2>1, <2>2, <2>3 DEF Forward, Live
  <2>5. QED
    BY <1>1, <2>1, <2>2, <2>4
<1>5. QED
  BY <1>3, <1>4

\* A recovered or historical incident is live again only when a generation opens.
THEOREM ReopeningIsNew == Spec => OnlyNewImpactReopens
<1> DEFINE Opens == \A i \in Incidents :
                       /\ lifecycle[i] \in Historical \cup {"recovered"}
                       /\ lifecycle'[i] \in Live /\ lifecycle'[i] # lifecycle[i]
                       => generation'[i] > generation[i]
<1>1. TypeOK /\ [Next]_vars => [Opens]_vars
  <2> SUFFICES ASSUME TypeOK, [Next]_vars, NEW i \in Incidents,
                      lifecycle[i] \in Historical \cup {"recovered"},
                      lifecycle'[i] \in Live, lifecycle'[i] # lifecycle[i]
               PROVE  generation'[i] > generation[i]
    OBVIOUS
  <2>1. ~UNCHANGED incident
    BY DEF incident
  <2>2. QED
    BY <2>1, StoredOrNot, OnlyNewReopens
<1>2. QED
  BY <1>1, TypeCorrect, PTL DEF Spec, OnlyNewImpactReopens

-----------------------------------------------------------------------------
(* Mails *)

\* A mail of the next state is one of this state, or says nothing, or was made
\* in this step: the digest, or the decision on what was due.
LEMMA MailsAfter ==
  ASSUME TypeOK, [Next]_vars, NEW m \in Mails'
  PROVE  \/ m \in Mails
         \/ m = {}
         \/ m = Digest /\ UNCHANGED <<incident, due>>
         \/ \E c \in due : m = {Named(c.incident, c.version, "active")} /\ UNCHANGED incident
<1>1. \A x \in SUBSET MailItem : Reserve(x) =>
          \A s \in Slots : mail'[s] = mail[s] \/ mail'[s] = x
  BY DEF Reserve, TypeOK
<1>2. CASE UNCHANGED <<selected, mail>>
  BY <1>2 DEF Mails
<1>3. ASSUME NEW c \in due, ReserveCritical(c), mail' # mail PROVE
        m \in Mails \/ (m = {Named(c.incident, c.version, "active")} /\ UNCHANGED incident)
  <2>1. UNCHANGED <<incident, selected>> /\ Reserve({Named(c.incident, c.version, "active")})
    BY <1>3 DEF ReserveCritical
  <2>2. c.incident \in Incidents /\ c.version \in Nat
    BY DEF TypeOK
  <2>3. {Named(c.incident, c.version, "active")} \in SUBSET MailItem
    BY <2>2, NamedIsItem DEF Lifecycles, Live
  <2>4. QED
    BY <1>1, <2>1, <2>3 DEF Mails
<1>4. CASE TickSelect
  BY <1>4 DEF TickSelect, Mails
<1>5. CASE TickReserve
  <2>1. selected' = {} /\ (mail' = mail \/ Reserve(selected)) /\ selected \in SUBSET MailItem
    BY <1>5 DEF TickReserve, TypeOK
  <2>2. QED
    BY <1>1, <2>1 DEF Mails
<1>6. CASE Evicted
  BY <1>6 DEF Evicted, Mails
<1>7. ASSUME NEW s \in Slots, MailSent(s) \/ MailRefused(s) PROVE m \in Mails \/ m = {}
  BY <1>7 DEF MailSent, MailRefused, TypeOK, Mails
<1>8. ASSUME NEW c \in due, ReserveCritical(c) PROVE UNCHANGED selected
  BY <1>8 DEF ReserveCritical
<1>9. QED
  BY <1>2, <1>3, <1>4, <1>5, <1>6, <1>7, <1>8 DEF Next, vars, outbox, Ingest, Import, NewWindow

LEMMA MailsAreMails == TypeOK => \A m \in Mails : m \in SUBSET MailItem
BY DEF TypeOK, Mails

-----------------------------------------------------------------------------
(* Credits *)

\* Versions only grow, and a version belongs to one lifecycle.
LEMMA EnvelopeGrows ==
  ASSUME TypeOK, UnknownIsBlank, NEW i \in Incidents, NEW e \in Envelope, StoreEnvelope(i, e)
  PROVE  /\ \A j \in Incidents : version'[j] >= version[j]
         /\ \A j \in Incidents : version'[j] = version[j] => lifecycle'[j] = lifecycle[j]
         /\ ~Known(i) => version'[i] = e.version
<1>1. /\ version'[i] = NextVersion(i, e) /\ lifecycle'[i] = NextLifecycle(i, e)
      /\ \A j \in Incidents \ {i} : version'[j] = version[j] /\ lifecycle'[j] = lifecycle[j]
  BY EnvelopeStored
<1>2. \A j \in Incidents : version[j] \in Nat
  BY DEF TypeOK
<1>3. e.version \in Nat /\ e.version > 0
  BY EnvelopeFields
<1>4. CASE Known(i)
  <2>1. NextVersion(i, e) = version[i] + (IF StateChanged(i, e) THEN 1 ELSE 0)
    BY <1>4 DEF NextVersion
  <2>2. NextLifecycle(i, e) # lifecycle[i] => StateChanged(i, e)
    BY DEF StateChanged
  <2>3. QED
    BY <1>1, <1>2, <1>4, <2>1, <2>2
<1>5. CASE ~Known(i)
  <2>1. version[i] = 0 /\ NextVersion(i, e) = e.version
    BY <1>5 DEF UnknownIsBlank, NextVersion
  <2>2. QED
    BY <1>1, <1>2, <1>3, <1>5, <2>1
<1>6. QED
  BY <1>4, <1>5

LEMMA ReachedKept ==
  ASSUME TypeOK, UnknownIsBlank, [Next]_vars, NEW m \in SUBSET MailItem, Reached(m)
  PROVE  Reached(m)'
<1> SUFFICES ASSUME NEW n \in m PROVE n.version <= version'[n.incident]
  BY DEF Reached
<1>1. n.incident \in Incidents /\ n.version \in Nat /\ version[n.incident] \in Nat
  BY DEF MailItem, TypeOK
<1>2. n.version <= version[n.incident]
  BY DEF Reached
<1>3. version'[n.incident] \in Nat /\ version'[n.incident] >= version[n.incident]
  BY <1>1, EnvelopeGrows, StoredOrNot, TypesKept DEF incident, TypeOK
<1>4. QED
  BY <1>1, <1>2, <1>3

LEMMA DigestIsReached == TypeOK => Reached(Digest)
BY DEF Digest, Reached, Named, TypeOK

\* Every mail names versions that were reached, if what is due does.
LEMMA MailsReached ==
  ASSUME TypeOK, UnknownIsBlank, DueIsReached, \A m \in Mails : Reached(m), [Next]_vars
  PROVE  \A m \in Mails' : Reached(m)'
<1> SUFFICES ASSUME NEW m \in Mails' PROVE Reached(m)'
  OBVIOUS
<1>1. CASE m \in Mails
  BY <1>1, ReachedKept, MailsAreMails
<1>2. CASE m = {}
  BY <1>2 DEF Reached
<1>3. CASE m = Digest /\ UNCHANGED <<incident, due>>
  BY <1>3, ReachedKept, DigestIsReached, DigestIsMail
<1>4. ASSUME NEW c \in due, m = {Named(c.incident, c.version, "active")} PROVE Reached(m)'
  <2>1. c.incident \in Incidents /\ c.version \in Nat /\ c.version <= version[c.incident]
    BY DEF TypeOK, DueIsReached
  <2>2. m \in SUBSET MailItem
    BY <1>4, <2>1, NamedIsItem DEF Lifecycles, Live
  <2>3. Reached(m)
    BY <1>4, <2>1 DEF Reached, Named
  <2>4. QED
    BY <2>2, <2>3, ReachedKept
<1>5. QED
  BY <1>1, <1>2, <1>3, <1>4, MailsAfter

\* What is credited was reached: by the mail that is sent, or by the import
\* that created its incident.
LEMMA CreditKept ==
  ASSUME TypeOK, UnknownIsBlank, \A m \in Mails : Reached(m), CreditIsReached, [Next]_vars
  PROVE  CreditIsReached'
<1> SUFFICES ASSUME NEW i \in Incidents PROVE notified'[i] <= version'[i]
  BY DEF CreditIsReached
<1>1. version[i] \in Nat /\ notified[i] \in Nat /\ version'[i] \in Nat /\ notified[i] <= version[i]
  BY TypesKept DEF TypeOK, CreditIsReached
<1>2. version'[i] >= version[i]
  BY <1>1, EnvelopeGrows, StoredOrNot DEF incident
<1>3. CASE UNCHANGED notified
  BY <1>1, <1>2, <1>3
<1>4. ASSUME NEW j \in Incidents, NEW e \in Envelope, Import(j, e) PROVE notified'[i] <= version'[i]
  <2>1. notified'[i] = notified[i] \/ notified'[i] = version'[i]
    BY <1>4 DEF Import, TypeOK
  <2>2. QED
    BY <1>1, <1>2, <2>1
<1>5. ASSUME NEW s \in Slots, MailSent(s) PROVE notified'[i] <= version'[i]
  <2>1. mail[s] \in SUBSET MailItem /\ Reached(mail[s])
    BY DEF TypeOK, Mails
  <2>2. Version(i, mail[s]) \in Nat /\ Version(i, mail[s]) <= version[i]
    BY <1>1, <2>1, VersionOf DEF Reached
  <2>3. notified'[i] = Larger(notified[i], Version(i, mail[s]))
    BY <1>5 DEF MailSent, Credit
  <2>4. PICK n, u, v \in Nat : n = notified[i] /\ u = Version(i, mail[s]) /\ v = version'[i] /\ n <= v /\ u <= v
    BY <1>1, <1>2, <2>2
  <2>5. Larger(n, u) <= v
    BY <2>4, LargerOf
  <2>6. QED
    BY <2>3, <2>4, <2>5
<1>6. QED
  BY <1>3, <1>4, <1>5 DEF Next, vars, outbox, Ingest, ReserveCritical, TickSelect, TickReserve,
     NewWindow, Evicted, MailRefused

\* All producers write the same version: what an envelope names is reached as
\* soon as its incident is known.
OneVersion == \A v \in Versions, w \in Versions : v = w

LEMMA WrittenKept ==
  ASSUME OneVersion, TypeOK, UnknownIsBlank, AtLeastWritten, [Next]_vars
  PROVE  AtLeastWritten'
<1> SUFFICES ASSUME NEW j \in Incidents, Known(j)', NEW v \in Versions PROVE v <= version'[j]
  BY DEF AtLeastWritten
<1>1. v \in Nat /\ version[j] \in Nat /\ version'[j] \in Nat
  BY StoreAssumption, TypesKept DEF TypeOK
<1>2. CASE UNCHANGED incident
  BY <1>2 DEF incident, AtLeastWritten, Known
<1>3. ASSUME NEW i \in Incidents, NEW e \in Envelope, StoreEnvelope(i, e) PROVE v <= version'[j]
  <2>1. CASE Known(j)
    BY <1>1, <1>3, <2>1, EnvelopeGrows DEF AtLeastWritten
  <2>2. CASE ~Known(j)
    <3>1. j = i
      BY <1>3, <2>2, EnvelopeKnown
    <3>2. version'[j] = e.version /\ e.version = v
      BY <1>3, <2>2, <3>1, EnvelopeGrows, EnvelopeFields DEF OneVersion
    <3>3. QED
      BY <1>1, <3>2
  <2>3. QED
    BY <2>1, <2>2
<1>4. QED
  BY <1>2, <1>3, StoredOrNot

LEMMA DueKept ==
  ASSUME TypeOK, UnknownIsBlank, AtLeastWritten, AtLeastWritten', DueIsReached, [Next]_vars
  PROVE  DueIsReached'
<1> SUFFICES ASSUME NEW c \in due' PROVE Known(c.incident)' /\ c.version <= version'[c.incident]
  BY DEF DueIsReached
<1>1. CASE c \in due
  <2>1. /\ c.incident \in Incidents /\ c.version \in Nat /\ Known(c.incident)
        /\ c.version <= version[c.incident] /\ version[c.incident] \in Nat
    BY <1>1 DEF TypeOK, DueIsReached
  <2>2. CASE UNCHANGED incident
    BY <2>1, <2>2 DEF incident, Known
  <2>3. ASSUME NEW i \in Incidents, NEW e \in Envelope, StoreEnvelope(i, e)
        PROVE  Known(c.incident)' /\ c.version <= version'[c.incident]
    <3>1. Known(c.incident)' /\ version'[c.incident] >= version[c.incident]
      BY <2>1, <2>3, EnvelopeKnown, EnvelopeGrows
    <3>2. version'[c.incident] \in Nat
      BY <2>1, TypesKept DEF TypeOK
    <3>3. QED
      BY <2>1, <3>1, <3>2
  <2>4. QED
    BY <2>2, <2>3, StoredOrNot
<1>2. ASSUME c \notin due, NEW i \in Incidents, NEW e \in Envelope, Ingest(i, e)
      PROVE  Known(c.incident)' /\ c.version <= version'[c.incident]
  <2>1. c.incident = i /\ c.version = e.version /\ StoreEnvelope(i, e)
    BY <1>2 DEF Ingest
  <2>2. Known(i)' /\ e.version \in Versions
    BY <2>1, EnvelopeKnown, EnvelopeFields
  <2>3. QED
    BY <2>1, <2>2 DEF AtLeastWritten
<1>3. CASE due' \subseteq due
  BY <1>1, <1>3
<1>4. QED
  BY <1>1, <1>2, <1>3 DEF Next, vars, Import, ReserveCritical, TickSelect, TickReserve, NewWindow,
     Evicted, MailSent, MailRefused

LEMMA CreditInvKept == OneVersion /\ TypeOK /\ CreditInv /\ [Next]_vars => CreditInv'
<1> SUFFICES ASSUME OneVersion, TypeOK, CreditInv, [Next]_vars PROVE CreditInv'
  OBVIOUS
<1> USE DEF CreditInv
<1>1. UnknownIsBlank' /\ AtLeastWritten'
  BY BlankKept, WrittenKept
<1>2. DueIsReached'
  BY <1>1, DueKept
<1>3. \A m \in Mails' : Reached(m)'
  BY MailsReached
<1>4. CreditIsReached'
  BY CreditKept
<1>5. QED
  BY <1>1, <1>2, <1>3, <1>4

LEMMA InitCredit == Init => CreditInv
<1> SUFFICES ASSUME Init PROVE CreditInv
  OBVIOUS
<1>1. UnknownIsBlank
  BY InitBlank DEF BirthInv
<1>2. AtLeastWritten /\ DueIsReached /\ CreditIsReached
  BY DEF Init, AtLeastWritten, DueIsReached, CreditIsReached, Known
<1>3. \A m \in Mails : m = {}
  BY DEF Init, Mails
<1>4. QED
  BY <1>1, <1>2, <1>3 DEF CreditInv, Reached

\* No mail credits a version that its incident has not reached, as long as all
\* producers write the same state_version.
THEOREM CreditsAreReached == OneVersion => (Spec => []CreditIsReached)
<1> SUFFICES ASSUME OneVersion PROVE Spec => []CreditIsReached
  OBVIOUS
<1>1. TypeOK /\ CreditInv /\ [Next]_vars => CreditInv'
  BY CreditInvKept
<1>2. CreditInv => CreditIsReached
  BY DEF CreditInv
<1>3. QED
  BY <1>1, <1>2, InitCredit, InitTypes, TypesKept, PTL DEF Spec

-----------------------------------------------------------------------------
(* Recoveries that are passed over *)

\* Nothing is decided outside the digests.
NoImmediate == "critical" \notin Severities \/ "verified" \notin Integrities

LEMMA NothingIsDue == NoImmediate /\ due = {} /\ [Next]_vars => due' = {}
<1> SUFFICES ASSUME NoImmediate, due = {}, [Next]_vars PROVE due' = {}
  OBVIOUS
<1>1. ASSUME NEW i \in Incidents, NEW e \in Envelope, Ingest(i, e) PROVE due' = {}
  <2>1. e.severity \in Severities /\ e.integrity \in Integrities
    BY DEF Envelope
  <2>2. QED
    BY <1>1, <2>1 DEF Ingest, NoImmediate
<1>2. QED
  BY <1>1 DEF Next, vars, Import, ReserveCritical, TickSelect, TickReserve, NewWindow, Evicted,
     MailSent, MailRefused

\* A digest tells what is so, and stays true while its versions are current.
LEMMA DigestIsTruthful == TypeOK => Truthful(Digest)
<1> SUFFICES ASSUME TypeOK PROVE Truthful(Digest)
  OBVIOUS
<1>1. \A n \in Digest : /\ n = Named(n.incident, version[n.incident], lifecycle[n.incident])
                        /\ n.version = version[n.incident] /\ n.lifecycle = lifecycle[n.incident]
  BY DEF Digest, Named
<1>2. QED
  BY <1>1, DigestIsReached DEF Truthful

LEMMA TruthKept ==
  ASSUME TypeOK, UnknownIsBlank, [Next]_vars, NEW m \in SUBSET MailItem, Truthful(m)
  PROVE  Truthful(m)'
<1>1. Reached(m)'
  BY ReachedKept DEF Truthful
<1>2. ASSUME NEW n \in m, n.version = version'[n.incident]
      PROVE  n.lifecycle = lifecycle'[n.incident]
  <2>1. /\ n.incident \in Incidents /\ n.version \in Nat
        /\ version[n.incident] \in Nat /\ version'[n.incident] \in Nat
        /\ n.version <= version[n.incident]
    BY TypesKept DEF MailItem, TypeOK, Truthful, Reached
  <2>2. CASE UNCHANGED incident
    BY <1>2, <2>2 DEF incident, Truthful
  <2>3. ASSUME NEW i \in Incidents, NEW e \in Envelope, StoreEnvelope(i, e)
        PROVE  n.lifecycle = lifecycle'[n.incident]
    <3>1. version'[n.incident] = version[n.incident]
      BY <1>2, <2>1, <2>3, EnvelopeGrows
    <3>2. lifecycle'[n.incident] = lifecycle[n.incident]
      BY <2>1, <2>3, <3>1, EnvelopeGrows
    <3>3. QED
      BY <1>2, <3>1, <3>2 DEF Truthful
  <2>4. QED
    BY <2>2, <2>3, StoredOrNot
<1>3. QED
  BY <1>1, <1>2 DEF Truthful

LEMMA MailsTruthful ==
  ASSUME TypeOK, UnknownIsBlank, due = {}, \A m \in Mails : Truthful(m), [Next]_vars
  PROVE  \A m \in Mails' : Truthful(m)'
<1> SUFFICES ASSUME NEW m \in Mails' PROVE Truthful(m)'
  OBVIOUS
<1>1. CASE m \in Mails
  BY <1>1, TruthKept, MailsAreMails
<1>2. CASE m = {}
  BY <1>2 DEF Truthful, Reached
<1>3. CASE m = Digest
  BY <1>3, TruthKept, DigestIsTruthful, DigestIsMail
<1>4. QED
  BY <1>1, <1>2, <1>3, MailsAfter

\* An envelope that leaves the version leaves the lifecycle, so what it makes of
\* an incident that was passed over was told; what is new is above the credit.
LEMMA EnvelopePasses ==
  ASSUME TypeOK, ToldInv, NEW i \in Incidents, NEW e \in Envelope, StoreEnvelope(i, e),
         NEW j \in Incidents, notified'[j] = notified[j], told'[j] = told[j]
  PROVE  /\ told'[j] <= version'[j]
         /\ lifecycle'[j] = "recovered" /\ version'[j] <= notified'[j] => told'[j] = version'[j]
<1>1. version[j] \in Nat /\ version'[j] \in Nat /\ notified[j] \in Nat /\ told[j] \in Nat
  BY EnvelopeTypes DEF TypeOK
<1>2. version'[j] >= version[j] /\ (version'[j] = version[j] => lifecycle'[j] = lifecycle[j])
  BY EnvelopeGrows DEF ToldInv
<1>3. told[j] <= version[j] /\ notified[j] <= version[j]
  BY DEF ToldInv, CreditIsReached
<1>4. lifecycle[j] = "recovered" /\ version[j] <= notified[j] => told[j] = version[j]
  BY DEF ToldInv, PassedOverIsTold
<1>5. QED
  BY <1>1, <1>2, <1>3, <1>4

\* A mail that credits the present version of a recovered incident says that it
\* recovered.
LEMMA SentPasses ==
  ASSUME TypeOK, ToldInv, NEW s \in Slots, MailSent(s), NEW i \in Incidents
  PROVE  /\ told'[i] <= version[i]
         /\ lifecycle[i] = "recovered" /\ version[i] <= notified'[i] => told'[i] = version[i]
<1> DEFINE m == mail[s]
           said == Version(i, RecoveredIn(m))
<1>1. m \in SUBSET MailItem /\ RecoveredIn(m) \in SUBSET MailItem /\ Truthful(m)
  BY DEF TypeOK, RecoveredIn, ToldInv, Mails
<1>2. /\ notified'[i] = Larger(notified[i], Version(i, m))
      /\ told'[i] = Larger(told[i], said)
  BY DEF MailSent, Credit
<1>3. version[i] \in Nat /\ notified[i] \in Nat /\ told[i] \in Nat
  BY DEF TypeOK
<1>4. /\ told[i] <= version[i] /\ notified[i] <= version[i]
      /\ lifecycle[i] = "recovered" /\ version[i] <= notified[i] => told[i] = version[i]
  BY DEF ToldInv, CreditIsReached, PassedOverIsTold
<1>5. /\ Version(i, m) \in Nat
      /\ Version(i, m) = 0 \/ \E n \in m : n.incident = i /\ n.version = Version(i, m)
  BY <1>1, VersionOf
<1>6. /\ said \in Nat
      /\ \/ said = 0 /\ \A n \in RecoveredIn(m) : n.incident # i
         \/ \E n \in RecoveredIn(m) : n.incident = i /\ n.version = said
  BY <1>1, VersionOf
<1> HIDE DEF m, said
<1>7. said <= version[i] /\ Version(i, m) <= version[i]
  BY <1>1, <1>3, <1>5, <1>6 DEF Truthful, Reached, RecoveredIn
<1>8. told'[i] <= version[i] /\ told'[i] >= told[i] /\ told'[i] >= said /\ told'[i] \in Nat
  BY <1>2, <1>3, <1>4, <1>6, <1>7, LargerOf
<1>9. ASSUME lifecycle[i] = "recovered", version[i] <= notified'[i] PROVE told'[i] = version[i]
  <2>1. CASE version[i] <= notified[i]
    BY <1>3, <1>4, <1>8, <1>9, <2>1
  <2>2. CASE version[i] > notified[i]
    <3>1. Version(i, m) = version[i] /\ Version(i, m) # 0
      <4>1. notified'[i] = notified[i] \/ notified'[i] = Version(i, m)
        BY <1>2, <1>3, <1>5, LargerOf
      <4>2. QED
        BY <1>3, <1>5, <1>7, <1>9, <2>2, <4>1
    <3>2. PICK n \in m : n.incident = i /\ n.version = version[i]
      BY <1>5, <3>1
    <3>3. n \in RecoveredIn(m)
      BY <1>1, <1>9, <3>2 DEF Truthful, RecoveredIn
    <3>4. PICK o \in RecoveredIn(m) : o.incident = i /\ o.version = said
      BY <1>6, <3>2, <3>3
    <3>5. o = n
      BY <1>1, <3>2, <3>4 DEF Truthful, RecoveredIn
    <3>6. QED
      BY <1>3, <1>8, <3>2, <3>4, <3>5
  <2>3. QED
    BY <1>3, <2>1, <2>2
<1>10. QED
  BY <1>8, <1>9

LEMMA PassesKept ==
  ASSUME TypeOK, ToldInv, [Next]_vars, NEW i \in Incidents
  PROVE  /\ told'[i] <= version'[i]
         /\ lifecycle'[i] = "recovered" /\ version'[i] <= notified'[i] => told'[i] = version'[i]
<1>1. told[i] <= version[i]
      /\ (lifecycle[i] = "recovered" /\ version[i] <= notified[i] => told[i] = version[i])
  BY DEF ToldInv, PassedOverIsTold
<1>2. CASE UNCHANGED <<incident, notified, told>>
  BY <1>1, <1>2 DEF incident
<1>3. ASSUME NEW j \in Incidents, NEW e \in Envelope, Ingest(j, e)
      PROVE  /\ told'[i] <= version'[i]
             /\ lifecycle'[i] = "recovered" /\ version'[i] <= notified'[i] => told'[i] = version'[i]
  BY <1>3, EnvelopePasses DEF Ingest
<1>4. ASSUME NEW j \in Incidents, NEW e \in Envelope, Import(j, e)
      PROVE  /\ told'[i] <= version'[i]
             /\ lifecycle'[i] = "recovered" /\ version'[i] <= notified'[i] => told'[i] = version'[i]
  <2>1. CASE notified'[i] = notified[i] /\ told'[i] = told[i]
    BY <1>4, <2>1, EnvelopePasses DEF Import
  <2>2. CASE i = j /\ told'[i] = version'[i]
    <3>1. version'[i] \in Nat
      BY TypesKept DEF TypeOK
    <3>2. QED
      BY <2>2, <3>1
  <2>3. QED
    BY <1>4, <2>1, <2>2 DEF Import, TypeOK
<1>5. ASSUME NEW s \in Slots, MailSent(s)
      PROVE  /\ told'[i] <= version'[i]
             /\ lifecycle'[i] = "recovered" /\ version'[i] <= notified'[i] => told'[i] = version'[i]
  <2>1. UNCHANGED incident
    BY <1>5 DEF MailSent
  <2>2. QED
    BY <1>5, <2>1, SentPasses DEF incident
<1>6. QED
  BY <1>2, <1>3, <1>4, <1>5 DEF Next, vars, ReserveCritical, TickSelect, TickReserve, NewWindow,
     Evicted, MailRefused

LEMMA ToldInvKept == NoImmediate /\ TypeOK /\ ToldInv /\ [Next]_vars => ToldInv'
<1> SUFFICES ASSUME NoImmediate, TypeOK, ToldInv, [Next]_vars PROVE ToldInv'
  OBVIOUS
<1>1. UnknownIsBlank' /\ due' = {}
  BY BlankKept, NothingIsDue DEF ToldInv
<1>2. ASSUME NEW i \in Incidents, Known(i)' PROVE version'[i] > 0
  <2>1. version[i] \in Nat /\ version'[i] \in Nat /\ (Known(i) => version[i] > 0)
    BY TypesKept DEF TypeOK, ToldInv
  <2>2. CASE UNCHANGED incident
    BY <1>2, <2>1, <2>2 DEF incident, Known
  <2>3. ASSUME NEW j \in Incidents, NEW e \in Envelope, StoreEnvelope(j, e) PROVE version'[i] > 0
    <3>1. version'[i] >= version[i] /\ (~Known(i) => i = j /\ version'[i] = e.version)
      BY <1>2, <2>3, EnvelopeGrows, EnvelopeKnown DEF ToldInv
    <3>2. QED
      BY <2>1, <3>1, EnvelopeFields
  <2>4. QED
    BY <2>2, <2>3, StoredOrNot
<1>3. \A m \in Mails' : Truthful(m)'
  BY MailsTruthful DEF ToldInv
<1>4. CreditIsReached'
  BY CreditKept DEF ToldInv, Truthful
<1>5. PassedOverIsTold' /\ \A i \in Incidents : told'[i] <= version'[i]
  BY PassesKept DEF PassedOverIsTold
<1>6. QED
  BY <1>1, <1>2, <1>3, <1>4, <1>5 DEF ToldInv

LEMMA InitTold == Init => ToldInv
<1> SUFFICES ASSUME Init PROVE ToldInv
  OBVIOUS
<1>1. UnknownIsBlank
  BY InitBlank DEF BirthInv
<1>2. \A i \in Incidents : /\ ~Known(i) /\ lifecycle[i] = "none"
                           /\ notified[i] <= version[i] /\ told[i] <= version[i]
  BY DEF Init, Known
<1>3. \A m \in Mails : m = {}
  BY DEF Init, Mails
<1>4. due = {}
  BY DEF Init
<1>5. QED
  BY <1>1, <1>2, <1>3, <1>4 DEF ToldInv, Truthful, Reached, CreditIsReached, PassedOverIsTold

\* A recovered incident is left out of the digests only if a mail said that it
\* recovered, or the import that created it was muted, as long as nothing is
\* decided outside the digests; whatever else is imported is announced.
THEOREM PassedOverWasTold == NoImmediate => (Spec => []PassedOverIsTold)
<1> SUFFICES ASSUME NoImmediate PROVE Spec => []PassedOverIsTold
  OBVIOUS
<1>1. TypeOK /\ ToldInv /\ [Next]_vars => ToldInv'
  BY ToldInvKept
<1>2. ToldInv => PassedOverIsTold
  BY DEF ToldInv
<1>3. QED
  BY <1>1, <1>2, InitTold, InitTypes, TypesKept, PTL DEF Spec
=============================================================================
