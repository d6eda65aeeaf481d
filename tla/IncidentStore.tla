--------------------------- MODULE IncidentStore ---------------------------
(***************************************************************************)
(* Incidents in the incident coordinator (worker/src/incident_coordinator  *)
(* .ts): envelopes advance an incident, a tick puts what people must know  *)
(* into one digest per half-hour window, and a mail that was sent credits  *)
(* the versions it named.  Every envelope is stored in one transaction;    *)
(* requests interleave between that and the reservation it leads to.       *)
(*                                                                         *)
(* The way of a reserved mail through Gmail is IncidentOutbox; here it is  *)
(* sent or it is not.  The coordinator is in live mode.                    *)
(***************************************************************************)
EXTENDS Naturals, FiniteSets

CONSTANTS Incidents, Impacts,
          Runs,         \* evidence keys: a workflow run with its artifact
          NoIncident,   \* no incident owns the evidence row
          Versions,     \* what producers write in state_version
          Severities, Integrities,
          Slots         \* bound: mails reserved and not yet settled

Live        == {"active", "recovery_pending", "recovered"}
Historical  == {"historical_pending_verification", "historical_diagnosed"}
Lifecycles  == Live \cup Historical

ASSUME StoreAssumption ==
    /\ Versions \subseteq Nat \ {0}
    /\ Severities \subseteq {"high", "critical"}
    /\ Integrities \subseteq {"partial", "verified"}
    /\ NoIncident \notin Incidents

VARIABLES
    lifecycle,   \* per incident, "none" before its first envelope
    generation, version,
    notified,    \* last_notified_state_version
    severity, integrity,
    impact,      \* lifecycle of each impact of each incident, or "none"
    evidence,    \* owner of each evidence row
    born,        \* the generation an impact was recorded in, 0 before
    due,         \* stored envelopes whose reserveCritical is still to run
    criticals,   \* immediate decisions: incident, generation, impact named
    selected,    \* what a tick has selected and not yet reserved
    digested,    \* the current window has its decision
    mail,        \* reserved mails: the incident versions they name
    told         \* last version announced as recovered, or muted by its import

incident == <<lifecycle, generation, version, severity, integrity, impact, evidence, born>>
outbox   == <<criticals, selected, digested, mail>>
vars     == <<incident, notified, due, outbox, told>>

Envelope == [lifecycle : Lifecycles, impact : Impacts, new : BOOLEAN, run : Runs,
             version : Versions, severity : Severities, integrity : Integrities]

Larger(m, n) == IF m > n THEN m ELSE n

\* validateEnvelope: a historical lifecycle is never a new impact.
Valid(e) == e.lifecycle \in Historical => ~e.new

Init ==
    /\ lifecycle  = [i \in Incidents |-> "none"]
    /\ generation = [i \in Incidents |-> 0]
    /\ version    = [i \in Incidents |-> 0]
    /\ notified   = [i \in Incidents |-> 0]
    /\ severity   = [i \in Incidents |-> "none"]
    /\ integrity  = [i \in Incidents |-> "none"]
    /\ impact     = [p \in Incidents \X Impacts |-> "none"]
    /\ born       = [p \in Incidents \X Impacts |-> 0]
    /\ evidence   = [r \in Runs |-> NoIncident]
    /\ due = {} /\ criticals = {} /\ selected = {} /\ digested = FALSE
    /\ told = [i \in Incidents |-> 0]
    /\ mail = [s \in Slots |-> {}]

-----------------------------------------------------------------------------
(* storeEnvelope                                                           *)

LifecycleRank == [active |-> 1, recovery_pending |-> 2, recovered |-> 3]
SeverityRank  == [none |-> 0, high |-> 2, critical |-> 3]
EvidenceRank  == [none |-> 0, partial |-> 1, verified |-> 2]

\* Within the live lifecycles only forward.
Forward(from, to) == from \in Live /\ to \in Live /\ LifecycleRank[to] >= LifecycleRank[from]

Known(i)        == lifecycle[i] # "none"
NewImpact(i, e) == e.new /\ impact[<<i, e.impact>>] = "none"
Advanced(i, e)  == ~Known(i) \/ e.version > version[i]

\* Fault: a replay is taken whatever its version and lifecycle.
ReplayedLifecycle(i, e) == e.lifecycle

NextLifecycle(i, e) ==
    IF ~Known(i) \/ NewImpact(i, e) \/ (Advanced(i, e) /\ Forward(lifecycle[i], e.lifecycle))
    THEN e.lifecycle ELSE lifecycle[i]

NextImpact(i, e) ==
    LET prior == impact[<<i, e.impact>>] IN
    IF prior = "none" \/ (Advanced(i, e) /\ Forward(prior, e.lifecycle))
    THEN e.lifecycle ELSE prior

NextSeverity(i, e)  == IF SeverityRank[e.severity] > SeverityRank[severity[i]]
                       THEN e.severity ELSE severity[i]
NextIntegrity(i, e) == IF EvidenceRank[e.integrity] > EvidenceRank[integrity[i]]
                       THEN e.integrity ELSE integrity[i]

\* Fault: every envelope with the flag opens a generation.
FlaggedGeneration(i, e) == IF Known(i) THEN generation[i] + (IF e.new THEN 1 ELSE 0) ELSE 1

\* Producers write generation 1; the store counts on from there.
NextGeneration(i, e) == IF Known(i) THEN generation[i] + (IF NewImpact(i, e) THEN 1 ELSE 0) ELSE 1

StateChanged(i, e) ==
    \/ ~Known(i)
    \/ NextLifecycle(i, e) # lifecycle[i]
    \/ NextSeverity(i, e) # severity[i] \/ NextIntegrity(i, e) # integrity[i]
    \/ NewImpact(i, e)
    \/ evidence[e.run] = NoIncident

NextVersion(i, e) == IF Known(i) THEN version[i] + (IF StateChanged(i, e) THEN 1 ELSE 0)
                                 ELSE e.version

\* The evidence row of a run is inserted once, whichever incident comes first.
StoreEnvelope(i, e) ==
    LET p == <<i, e.impact>> IN
    /\ lifecycle'  = [lifecycle EXCEPT ![i] = NextLifecycle(i, e)]
    /\ generation' = [generation EXCEPT ![i] = NextGeneration(i, e)]
    /\ version'    = [version EXCEPT ![i] = NextVersion(i, e)]
    /\ severity'   = [severity EXCEPT ![i] = NextSeverity(i, e)]
    /\ integrity'  = [integrity EXCEPT ![i] = NextIntegrity(i, e)]
    /\ impact'     = [impact EXCEPT ![p] = NextImpact(i, e)]
    /\ born'       = [born EXCEPT ![p] = IF @ = 0 THEN NextGeneration(i, e) ELSE @]
    /\ evidence'   = [evidence EXCEPT ![e.run] = IF @ = NoIncident THEN i ELSE @]

\* ingest: the immediate decision is due for a flagged envelope, stored as new
\* or not.
Ingest(i, e) ==
    /\ Valid(e)
    /\ StoreEnvelope(i, e)
    /\ due' = IF /\ e.lifecycle = "active" /\ e.severity = "critical"
                 /\ e.new /\ e.integrity = "verified"
              THEN due \cup {[incident |-> i, impact |-> e.impact, version |-> e.version]}
              ELSE due
    /\ UNCHANGED <<notified, outbox, told>>

\* importSnapshot: any envelope, and never an immediate decision.  The mute that
\* it may ask for is written with a new incident and is lost on a known one.
Import(i, e) ==
    /\ Valid(e)
    /\ StoreEnvelope(i, e)
    /\ \/ UNCHANGED <<notified, told>>
       \/ /\ ~Known(i)
          /\ notified' = [notified EXCEPT ![i] = version'[i]]
          /\ told' = [told EXCEPT ![i] = version'[i]]
    /\ UNCHANGED <<due, outbox>>

-----------------------------------------------------------------------------
(* Decisions                                                               *)

Named(i, v, l) == [incident |-> i, version |-> v, lifecycle |-> l]

Reserve(m) == \E s \in Slots : mail[s] = {} /\ mail' = [mail EXCEPT ![s] = m]

\* reserveCritical: one decision per incident and generation, the generation
\* being read only now; the version credited is the one of the envelope.
ReserveCritical(c) ==
    /\ c \in due
    /\ due' = due \ {c}
    /\ IF \E k \in criticals : k.incident = c.incident /\ k.generation = generation[c.incident]
       THEN UNCHANGED <<criticals, mail>>
       ELSE /\ criticals' = criticals \cup {[incident |-> c.incident, impact |-> c.impact,
                                             generation |-> generation[c.incident]]}
            /\ Reserve({Named(c.incident, c.version, "active")})
    /\ UNCHANGED <<incident, notified, selected, digested, told>>

\* Fault: only incidents that are not over are announced.
AnnounceOngoing(i) == lifecycle[i] \in {"active", "recovery_pending"}

\* Fault: everything that has not recovered is announced.
AnnounceUnrecovered(i) == lifecycle[i] # "recovered"

Announce(i) == \/ lifecycle[i] \in {"active", "recovery_pending"}
               \/ lifecycle[i] = "recovered" /\ version[i] > notified[i]

Digest == {Named(i, version[i], lifecycle[i]) : i \in {j \in Incidents : Announce(j)}}

TickSelect ==
    /\ selected = {} /\ Digest # {}
    /\ selected' = Digest
    /\ UNCHANGED <<incident, notified, due, criticals, digested, mail, told>>

\* reserveDecision: the first digest of a window is its only one.
TickReserve ==
    /\ selected # {}
    /\ IF digested THEN UNCHANGED mail ELSE Reserve(selected)
    /\ selected' = {} /\ digested' = TRUE
    /\ UNCHANGED <<incident, notified, due, criticals, told>>

\* A tick computes its window and reserves within moments.
NewWindow ==
    /\ digested /\ selected = {}
    /\ digested' = FALSE
    /\ UNCHANGED <<incident, notified, due, criticals, selected, mail, told>>

\* The version of i that mail m names, 0 if none.
Version(i, m) == IF \E n \in m : n.incident = i
                 THEN (CHOOSE n \in m : n.incident = i).version ELSE 0

RecoveredIn(m) == {n \in m : n.lifecycle = "recovered"}

\* Fault: the version credited is the one the incident has by now.
CreditCurrent(i, m) == IF Version(i, m) = 0 THEN notified[i] ELSE version[i]

\* Fault: mails are counted.
CreditCounted(i, m) == IF Version(i, m) = 0 THEN notified[i] ELSE notified[i] + 1

\* last_notified_state_version = MAX(itself, the version named)
Credit(i, m) == Larger(notified[i], Version(i, m))

\* markSent
MailSent(s) ==
    /\ mail[s] # {}
    /\ notified' = [i \in Incidents |-> Credit(i, mail[s])]
    /\ told' = [i \in Incidents |-> Larger(told[i], Version(i, RecoveredIn(mail[s])))]
    /\ mail' = [mail EXCEPT ![s] = {}]
    /\ UNCHANGED <<incident, due, criticals, selected, digested>>

\* The row ends as failed_not_sent; nothing is credited.
MailRefused(s) ==
    /\ mail[s] # {}
    /\ mail' = [mail EXCEPT ![s] = {}]
    /\ UNCHANGED <<incident, notified, due, criticals, selected, digested, told>>

\* The object is evicted between two awaits.
Evicted ==
    /\ due # {} \/ selected # {}
    /\ due' = {} /\ selected' = {}
    /\ UNCHANGED <<incident, notified, criticals, digested, mail, told>>

Next ==
    \/ \E i \in Incidents, e \in Envelope : Ingest(i, e) \/ Import(i, e)
    \/ \E c \in due : ReserveCritical(c)
    \/ TickSelect \/ TickReserve \/ NewWindow \/ Evicted
    \/ \E s \in Slots : MailSent(s) \/ MailRefused(s)

Spec == Init /\ [][Next]_vars

\* The heartbeat calls tick again and again and windows pass; requests end;
\* Gmail does not refuse every digest, and the object is not evicted in every
\* tick.
Fairness ==
    /\ WF_vars(TickSelect) /\ SF_vars(TickReserve) /\ SF_vars(NewWindow)
    /\ \A s \in Slots : SF_vars(MailSent(s))

FairSpec == Spec /\ Fairness

-----------------------------------------------------------------------------
(* Properties                                                              *)

MailItem == [incident : Incidents, version : Nat, lifecycle : Lifecycles]

\* Every variable stays in its domain.
TypeOK ==
    /\ lifecycle  \in [Incidents -> Lifecycles \cup {"none"}]
    /\ generation \in [Incidents -> Nat]
    /\ version    \in [Incidents -> Nat]
    /\ notified   \in [Incidents -> Nat]
    /\ severity   \in [Incidents -> {"none", "high", "critical"}]
    /\ integrity  \in [Incidents -> {"none", "partial", "verified"}]
    /\ impact     \in [Incidents \X Impacts -> Lifecycles \cup {"none"}]
    /\ born       \in [Incidents \X Impacts -> Nat]
    /\ evidence   \in [Runs -> Incidents \cup {NoIncident}]
    /\ due        \subseteq [incident : Incidents, impact : Impacts, version : Nat]
    /\ criticals  \subseteq [incident : Incidents, impact : Impacts, generation : Nat]
    /\ selected   \in SUBSET MailItem
    /\ digested   \in BOOLEAN
    /\ mail       \in [Slots -> SUBSET MailItem]
    /\ told       \in [Incidents -> Nat]

\* A generation is opened by an impact and by nothing else: replays, reruns and
\* imports of what is known never count one.
GenerationsHaveImpacts ==
    \A i \in Incidents : \A g \in 1 .. generation[i] : \E p \in Impacts : born[<<i, p>>] = g

\* A recovered or historical incident is live again only when a generation opens.
OnlyNewImpactReopens ==
    [][\A i \in Incidents :
          /\ lifecycle[i] \in Historical \cup {"recovered"}
          /\ lifecycle'[i] \in Live /\ lifecycle'[i] # lifecycle[i]
          => generation'[i] > generation[i]]_vars

\* A recovery is never passed over: a recovered incident is left out of the
\* digests only if a mail said that it recovered, or if the import that created
\* it was muted; an import of a known incident silences nothing.
PassedOverIsTold ==
    \A i \in Incidents : lifecycle[i] = "recovered" /\ version[i] <= notified[i]
                            => told[i] = version[i]

\* No mail credits a version that its incident has not reached, which would
\* hide the next change of that incident.
CreditIsReached == \A i \in Incidents : notified[i] <= version[i]

\* Every recovery is announced, or the incident moves on.
RecoveryIsAnnounced ==
    \A i \in Incidents : lifecycle[i] = "recovered"
        ~> (lifecycle[i] # "recovered" \/ told[i] = version[i])
=============================================================================
