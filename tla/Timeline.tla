------------------------------- MODULE Timeline -------------------------------
(***************************************************************************)
(* GET /api/v1/timeline of services/infra-gateway: alerts, remediations    *)
(* and verifications, asked of two services at once while those go on      *)
(* writing, joined into one row per alert.  Every list is cut to its       *)
(* newest few, and a failing one is taken for an empty one.  The states    *)
(* and the topology, which add a risk to a row, are left out.              *)
(***************************************************************************)
EXTENDS Naturals, Sequences, FiniteSets

CONSTANTS
  MaxAlerts,   \* bound: alerts, numbered as they are raised
  KeyOf,       \* alert -> its entity and rule
  Limits,      \* bound: those a request may have, out of 1..500
  Tries,       \* verifications of a remediation, retries included
  MaxMishaps   \* bound: failures, crashes, and alerts resolved by hand

ASSUME TimelineOK ==
  /\ MaxAlerts \in Nat /\ Limits \subseteq 1..500 /\ Tries \in Nat \ {0}
  /\ DOMAIN KeyOf = 1..MaxAlerts /\ MaxMishaps \in Nat

VARIABLES
  raised,      \* alerts so far
  open,        \* those not RESOLVED
  verified,    \* verifications, as they were recorded
  acted,       \* remediations, as they were recorded
  remedy,      \* the alert the runtime is at, and how far it is
  request,     \* the request under way, or answered
  before,      \* history: what was recorded when it came
  mishaps

timelinevars == <<raised, open, verified, acted, remedy, request, before,
                  mishaps>>

Ids == 1..MaxAlerts
Keys == {KeyOf[a] : a \in Ids}

Mishap == mishaps < MaxMishaps /\ mishaps' = mishaps + 1

------------------------------------------------------------------------------
(* The alert engine and the runtime, as far as the timeline tells.         *)

Raise ==
  /\ raised < MaxAlerts /\ raised' = raised + 1
  /\ open' = open \union {raised + 1}
  /\ UNCHANGED <<verified, acted, remedy, request, before, mishaps>>

Free == [alert |-> 0, at |-> "idle", tries |-> 0, again |-> FALSE]

\* Alerts are taken one at a time, in their order, the last one again when its
\* message is back; those of no policy, and of a paused runtime, leave no trace.
Remedy ==
  /\ remedy.at = "idle"
  /\ \E a \in (remedy.alert + 1)..raised \union {remedy.alert} :
       /\ a # remedy.alert \/ remedy.again
       /\ remedy' = [alert |-> a, at |-> "verifying", tries |-> 0, again |-> FALSE]
  /\ UNCHANGED <<raised, open, verified, acted, request, before, mishaps>>

\* A verification is recorded, and repeated while it fails.
Verify(success) ==
  /\ remedy.at = "verifying"
  /\ verified' = Append(verified, [alert |-> remedy.alert, success |-> success])
  /\ remedy' = [remedy EXCEPT !.tries = @ + 1,
       !.at = CASE success -> "resolving"
                [] ~success /\ remedy.tries + 1 < Tries -> "verifying"
                [] OTHER -> "recording"]
  /\ UNCHANGED <<raised, open, acted, request, before, mishaps>>

ResolveVerified ==
  /\ remedy.at = "resolving"
  /\ open' = open \ {remedy.alert}
  /\ remedy' = [remedy EXCEPT !.at = "recording"]
  /\ UNCHANGED <<raised, verified, acted, request, before, mishaps>>

\* An exception ends the remediation, or resolve_alert does not tell that it
\* failed: no more is verified, and the alert is not resolved.
RemedyFails ==
  /\ remedy.at \in {"verifying", "resolving"}
  /\ Mishap
  /\ remedy' = [remedy EXCEPT !.at = "recording"]
  /\ UNCHANGED <<raised, open, verified, acted, request, before>>

\* Its record may fail too; the message is gone either way.
Record ==
  /\ remedy.at = "recording"
  /\ \/ acted' = Append(acted, [alert |-> remedy.alert]) /\ UNCHANGED mishaps
     \/ Mishap /\ UNCHANGED acted
  /\ remedy' = [remedy EXCEPT !.at = "idle"]
  /\ UNCHANGED <<raised, open, verified, request, before>>

\* RabbitMQ puts the message back that the runtime had not acknowledged when it
\* died, wherever it was with it, at the end included, where a publication that
\* was retried without need looks the same.
RuntimeDies ==
  /\ remedy.alert # 0 /\ ~remedy.again
  /\ Mishap
  /\ remedy' = [remedy EXCEPT !.at = "idle", !.again = TRUE]
  /\ UNCHANGED <<raised, open, verified, acted, request, before>>

\* An operator resolves an alert.
ResolveByHand(a) ==
  /\ a \in open /\ open' = open \ {a}
  /\ Mishap
  /\ UNCHANGED <<raised, verified, acted, remedy, request, before>>

------------------------------------------------------------------------------
(* The request.                                                            *)

Lists == {"alerts", "verifications", "actions"}

NoRequest == [at |-> "none", of |-> {}, limit |-> 1, got |-> <<>>, failed |-> {},
              rows |-> <<>>]

\* of: the keys the request is about, all of them or those of one entity; one
\* without any gets no rows.  The lists are asked for with its limit.
AskTimeline(of, limit) ==
  /\ request.at = "none"
  /\ request' = [NoRequest EXCEPT !.at = "asking", !.of = of,
                                        !.limit = limit]
  /\ before' = [raised |-> raised, verified |-> verified, acted |-> acted]
  /\ UNCHANGED <<raised, open, verified, acted, remedy, mishaps>>

\* The places in a list of what is newer than place i and asked about.
Newer(s, i) == {j \in DOMAIN s : i < j /\ KeyOf[s[j].alert] \in request.of}

\* The newest of a list, by their places in it.
Page(s) ==
  LET shown == {i \in DOMAIN s : /\ KeyOf[s[i].alert] \in request.of
                                 /\ Cardinality(Newer(s, i)) < request.limit}
  IN [i \in shown |-> s[i]]

\* The alerts as they stand.
Alerts == [a \in 1..raised |-> [alert |-> a, resolved |-> a \notin open]]

Answer(l) ==
  CASE l = "alerts" -> Page(Alerts)
    [] l = "verifications" -> Page(verified)
    [] l = "actions" -> Page(acted)

\* The answers received, with that of one more list.
AlsoGot(l, answer) ==
  [k \in DOMAIN request.got \union {l} |-> IF k = l THEN answer ELSE request.got[k]]

\* One of the parallel fetches.
Fetch(l) ==
  /\ request.at = "asking" /\ l \notin DOMAIN request.got
  /\ \/ /\ request' = [request EXCEPT !.got = AlsoGot(l, Answer(l))]
        /\ UNCHANGED mishaps
     \/ /\ Mishap
        /\ request' = [request EXCEPT !.got = AlsoGot(l, <<>>),
                                      !.failed = @ \union {l}]
  /\ UNCHANGED <<raised, open, verified, acted, remedy, before>>

Own(page, a) == {i \in DOMAIN page : page[i].alert = a}
Akin(page, a) == {i \in DOMAIN page : KeyOf[page[i].alert] = KeyOf[a]}

\* Mutant of Chosen: the oldest of the page overwrites the newer ones.
ChosenLast(page, a) ==
  LET places == IF Own(page, a) # {} THEN Own(page, a) ELSE Akin(page, a)
  IN {page[i] : i \in {i \in places : \A j \in places : i <= j}}

\* The newest document of the alert, or else of its entity and rule.
Chosen(page, a) ==
  LET places == IF Own(page, a) # {} THEN Own(page, a) ELSE Akin(page, a)
  IN {page[i] : i \in {i \in places : \A j \in places : j <= i}}

Status(resolved, verification) ==
  IF resolved \/ \E v \in verification : v.success THEN "RESOLVED"
  ELSE IF verification # {} THEN "FAILED_REMEDIATION"
  ELSE "IN_PROGRESS"

Row(doc) ==
  [status |-> Status(doc.resolved, Chosen(request.got["verifications"], doc.alert)),
   acted |-> Chosen(request.got["actions"], doc.alert) # {}]

\* The rows are joined, which awaits nothing, one for each alert.
Join ==
  /\ request.at = "asking" /\ DOMAIN request.got = Lists
  /\ request' = [request EXCEPT !.at = "answered",
       !.rows = [a \in DOMAIN request.got["alerts"] |->
                   Row(request.got["alerts"][a])]]
  /\ UNCHANGED <<raised, open, verified, acted, remedy, before, mishaps>>

TimelineInit ==
  /\ raised = 0 /\ open = {} /\ verified = <<>> /\ acted = <<>>
  /\ remedy = Free /\ request = NoRequest
  /\ before = [raised |-> 0, verified |-> <<>>, acted |-> <<>>] /\ mishaps = 0

\* Bound: the answer to one request, at any time, is the end.
TimelineNext ==
  /\ request.at # "answered"
  /\ \/ Raise \/ Remedy \/ ResolveVerified \/ RemedyFails \/ Record \/ RuntimeDies
     \/ \E success \in BOOLEAN : Verify(success)
     \/ \E a \in Ids : ResolveByHand(a)
     \/ \E of \in SUBSET Keys \ {{}}, limit \in Limits : AskTimeline(of, limit)
     \/ \E l \in Lists : Fetch(l)
     \/ Join
------------------------------------------------------------------------------
(* Properties.                                                             *)

TimelineTypeOK ==
  /\ raised \in 0..MaxAlerts /\ open \subseteq 1..raised
  /\ \A i \in DOMAIN verified : verified[i] \in [alert : Ids, success : BOOLEAN]
  /\ \A i \in DOMAIN acted : acted[i] \in [alert : Ids]
  /\ remedy \in [alert : 0..raised, tries : 0..Tries, again : BOOLEAN,
                 at : {"idle", "verifying", "resolving", "recording"}]
  /\ request.at \in {"none", "asking", "answered"} /\ request.of \subseteq Keys
  /\ DOMAIN request.got \subseteq Lists /\ request.failed \subseteq Lists
  /\ mishaps \in 0..MaxMishaps

\* Too many others are newer for what the list knew of a to be on its page.
CrowdedOut(s, old, a) ==
  \A i \in Own(old, a) : Cardinality(Newer(s, i)) >= request.limit

\* A result of a, or where it may have none of another alert of its entity and
\* rule, that is not older than the newest one of a that was known.
Told(a, success) ==
  LET known == Own(before.verified, a)
      unseen == \/ "verifications" \in request.failed
                \/ CrowdedOut(verified, before.verified, a)
  IN \E i \in DOMAIN verified :
       /\ verified[i].success = success
       /\ \/ verified[i].alert = a /\ \A k \in known : k <= i
          \/ unseen /\ KeyOf[verified[i].alert] = KeyOf[a]

\* A row of the timeline never falls behind what was recorded of its alert when
\* the request came, a result or a remediation, unless that list failed or was
\* too short for it: it is RESOLVED only if the alert is, or if the newest result
\* recorded by then, or one recorded since, is a success, FAILED_REMEDIATION
\* only if one is a failure, and where the alert may have found no result of its
\* own it may have borrowed one of its entity and rule; and an alert is missing
\* only if the list failed or as many as the limit are newer.  A success is no
\* last word: the message of a runtime that died is handled again.
TimelineFaithful ==
  request.at = "answered" =>
    LET told == DOMAIN request.rows
    IN /\ \A a \in told :
            LET row == request.rows[a]
            IN /\ row.status = "RESOLVED" => a \notin open \/ Told(a, TRUE)
               /\ row.status = "FAILED_REMEDIATION" => Told(a, FALSE)
               /\ row.status = "IN_PROGRESS" =>
                    \/ "verifications" \in request.failed
                    \/ CrowdedOut(verified, before.verified, a)
               /\ \/ row.acted \/ "actions" \in request.failed
                  \/ CrowdedOut(acted, before.acted, a)
       /\ \A a \in 1..before.raised :
            (KeyOf[a] \in request.of /\ a \notin told) =>
              \/ "alerts" \in request.failed
              \/ Cardinality({b \in told : b > a}) >= request.limit
===============================================================================
