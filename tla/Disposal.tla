-------------------------------- MODULE Disposal --------------------------------
(***************************************************************************)
(* The disposal of boxes (server/src/modules/retention): a proposal is     *)
(* reviewed, approved by the client, for a large proposal by two people,   *)
(* completed with the decision of the State Archives, and executed after a *)
(* cooling-off period.  Legal holds on the box, on its content or on its   *)
(* JRWA series take it out of the process.                                 *)
(*                                                                         *)
(* Every decision is one serializable transaction over a batch of boxes    *)
(* that updates all of them or none: an action per operation.  The writers *)
(* that are not serializable (a hold on a box, a rejection, a plain status *)
(* change, orders, moved folders) decide with the conditions of the update *)
(* itself, under the locks of its rows, so they too take effect at one     *)
(* instant, before or after such a transaction.                            *)
(*                                                                         *)
(* All boxes here are due, and their retention policy allows disposal:     *)
(* what disposalEligibility is left to decide is the holds.                *)
(***************************************************************************)
EXTENDS Integers, FiniteSets

CONSTANTS
  Box,          \* boxes that are due for disposal
  Folder,       \* parts of their content: folders, or documents of no folder
  User,         \* users
  Client,       \* the users who may decide for the client (leadership, tenant admin)
  Series,       \* the boxes and content whose retention policy is of one JRWA series
  HoldTarget,   \* what setHold can hold: a folder, a document or a transfer list
  Covers,       \* Covers[t]: the content that a hold on t protects
  Ordered,      \* boxes that orders hand out or take back
  ManualStatus, \* the statuses that users give a box by hand
  Movable,      \* content of draft transfer lists, which bulkAssignBox may move
  Threshold,    \* DISPOSAL_FOUR_EYES_THRESHOLD
  CoolingDays,  \* DISPOSAL_COOLING_OFF_DAYS
  MaxDay,       \* bound of the clock
  NoUser, NoBox

Statuses == {"active", "checked_out", "pending_disposal", "approved_disposal",
             "disposed", "lost", "damaged"}
InDisposal == {"pending_disposal", "approved_disposal"}

ASSUME DisposalAssumption ==
  /\ IsFiniteSet(Box)
  /\ Client \subseteq User /\ NoUser \notin User
  /\ Series \subseteq Box \cup Folder /\ Ordered \subseteq Box /\ NoBox \notin Box
  /\ Movable \subseteq Folder /\ ManualStatus \subseteq Statuses
  /\ Covers \in [HoldTarget -> SUBSET Folder]
  /\ Threshold \in Nat /\ CoolingDays \in Nat /\ MaxDay \in Nat

VARIABLES
  status,       \* boxes.status
  decision,     \* the disposal columns of boxes
  proposer,     \* the user of the latest audit entry 'disposal.proposed' of a box
  boxHold,      \* the boxes with legalHold
  contentHold,  \* the hold targets with legalHold
  seriesHold,   \* seriesLegalHold of the series
  inBox,        \* folders.boxId
  today         \* the clock, in days

holds == <<boxHold, contentHold, seriesHold>>
vars == <<status, decision, proposer, boxHold, contentHold, seriesHold, inBox, today>>

\* proposal is the batch the box was proposed with (disposalProposalBatchId),
\* approvedOn the day of the latest client approval (its audit entry).
Decision ==
  [reviewed : BOOLEAN, proposal : SUBSET Box, fourEyes : BOOLEAN,
   first : User \cup {NoUser}, second : User \cup {NoUser},
   approvedOn : 0 .. MaxDay, coolingUntil : 0 .. MaxDay + CoolingDays, ap : BOOLEAN]

clearedDisposalDecisions ==
  [reviewed |-> FALSE, proposal |-> {}, fourEyes |-> FALSE, first |-> NoUser,
   second |-> NoUser, approvedOn |-> 0, coolingUntil |-> 0, ap |-> FALSE]

Content(b) == {f \in Folder : inBox[f] = b}
Held(f) == \E t \in contentHold : f \in Covers[t]
OfSeries(b) == Series \cap ({b} \cup Content(b)) # {}

\* disposalEligibility, for boxes that are due.
HeldAsBox(b) == b \notin boxHold /\ ~ (seriesHold /\ OfSeries(b))
disposalEligibility(b) ==
  /\ b \notin boxHold
  /\ ~ (seriesHold /\ OfSeries(b))
  /\ \A f \in Content(b) : ~ Held(f)

Init ==
  /\ status = [b \in Box |-> "active"]
  /\ decision = [b \in Box |-> clearedDisposalDecisions]
  /\ proposer = [b \in Box |-> NoUser]
  /\ boxHold = {} /\ contentHold = {} /\ seriesHold = FALSE
  /\ inBox \in [Folder -> Box \cup {NoBox}]
  /\ today = 0

-------------------------------------------------------------------------------
(* The decisions on a batch *)

SetStatus(S, s) == status' = [b \in Box |-> IF b \in S THEN s ELSE status[b]]

\* The boxes of S leave the disposal process and lose every decision.
Withdrawn(S) ==
  /\ SetStatus(S, "active")
  /\ decision' = [b \in Box |-> IF b \in S THEN clearedDisposalDecisions ELSE decision[b]]

Batch(S, s) == S # {} /\ \A b \in S : status[b] = s
Eligible(S) == \A b \in S : disposalEligibility(b)

NeedsFourEyes(S) == Cardinality(S) >= Threshold

\* The decisions of a box that is proposed with the batch S: none yet.
Proposed(b, S) == [clearedDisposalDecisions EXCEPT !.proposal = S, !.fourEyes = NeedsFourEyes(S)]

initiateDisposal(u, S) ==
  /\ Batch(S, "active") /\ Eligible(S)
  /\ SetStatus(S, "pending_disposal")
  /\ decision' = [b \in Box |-> IF b \in S THEN Proposed(b, S) ELSE decision[b]]
  /\ proposer' = [b \in Box |-> IF b \in S THEN u ELSE proposer[b]]
  /\ UNCHANGED <<holds, inBox, today>>

reviewDisposal(S) ==
  /\ Batch(S, "pending_disposal") /\ Eligible(S)
  /\ \A b \in S : ~ decision[b].reviewed
  /\ decision' = [b \in Box |-> IF b \in S THEN [decision[b] EXCEPT !.reviewed = TRUE]
                                           ELSE decision[b]]
  /\ UNCHANGED <<status, proposer, holds, inBox, today>>

\* Every approval starts the cooling-off period anew.
FirstCoolingOff(b) == IF decision[b].first = NoUser THEN today + CoolingDays
                                                    ELSE decision[b].coolingUntil
CoolingOff(b) == today + CoolingDays

AnyProposal(u, S) == TRUE
NotOwnProposal(u, S) == \A b \in S : proposer[b] # u

approveDisposal(u, S) ==
  /\ u \in Client
  /\ Batch(S, "pending_disposal") /\ Eligible(S)
  /\ \A b \in S : decision[b].reviewed
  /\ NotOwnProposal(u, S)
  /\ SetStatus(S, "approved_disposal")
  /\ decision' = [b \in Box |-> IF b \in S
       THEN [decision[b] EXCEPT !.first = u, !.approvedOn = today,
                                !.coolingUntil = CoolingOff(b)]
       ELSE decision[b]]
  /\ UNCHANGED <<proposer, holds, inBox, today>>

secondApproveDisposal(u, S) ==
  /\ u \in Client
  /\ Batch(S, "approved_disposal") /\ Eligible(S)
  /\ \A b \in S : /\ decision[b].fourEyes
                  /\ decision[b].first \notin {NoUser, u}
                  /\ decision[b].second = NoUser
                  /\ proposer[b] # NoUser
  /\ NotOwnProposal(u, S)
  /\ decision' = [b \in Box |-> IF b \in S
       THEN [decision[b] EXCEPT !.second = u, !.approvedOn = today,
                                !.coolingUntil = CoolingOff(b)]
       ELSE decision[b]]
  /\ UNCHANGED <<status, proposer, holds, inBox, today>>

\* A client rejects or withdraws; the columns do not keep who it was.
rejectDisposal(S) ==
  /\ Client # {}
  /\ Batch(S, "pending_disposal")
  /\ Withdrawn(S)
  /\ UNCHANGED <<proposer, holds, inBox, today>>

withdrawDisposal(S) ==
  /\ Client # {}
  /\ Batch(S, "approved_disposal")
  /\ Withdrawn(S)
  /\ UNCHANGED <<proposer, holds, inBox, today>>

\* The approvals a box needs are complete.
FullyApproved(b) == decision[b].fourEyes => decision[b].second # NoUser

recordApDecision(S) ==
  /\ Batch(S, "approved_disposal") /\ Eligible(S)
  /\ \A b \in S : ~ decision[b].ap /\ FullyApproved(b)
  /\ decision' = [b \in Box |-> IF b \in S THEN [decision[b] EXCEPT !.ap = TRUE]
                                           ELSE decision[b]]
  /\ UNCHANGED <<status, proposer, holds, inBox, today>>

completeDisposal(S) ==
  /\ Batch(S, "approved_disposal") /\ Eligible(S)
  /\ \A b \in S : /\ decision[b].ap /\ FullyApproved(b)
                  /\ decision[b].coolingUntil <= today
  /\ SetStatus(S, "disposed")
  /\ UNCHANGED <<decision, proposer, holds, inBox, today>>

-------------------------------------------------------------------------------
(* Legal holds: h tells a hold that is placed from one that is released *)

\* A placed hold withdraws the boxes it protects that are under way.
WithdrawPending(S) == Withdrawn({b \in S : status[b] = "pending_disposal"})
WithdrawHeld(S) == Withdrawn({b \in S : status[b] \in InDisposal})

setLegalHold(b, h) ==
  /\ status[b] # "disposed"
  /\ boxHold' = IF h THEN boxHold \cup {b} ELSE boxHold \ {b}
  /\ IF h THEN WithdrawHeld({b}) ELSE UNCHANGED <<status, decision>>
  /\ UNCHANGED <<proposer, contentHold, seriesHold, inBox, today>>

BoxesWith(t) == {inBox[f] : f \in Covers[t]} \ {NoBox}

setHold(t, h) ==
  /\ h # (t \in contentHold)
  /\ h => \A b \in BoxesWith(t) : status[b] # "disposed"
  /\ contentHold' = IF h THEN contentHold \cup {t} ELSE contentHold \ {t}
  /\ IF h THEN WithdrawHeld(BoxesWith(t)) ELSE UNCHANGED <<status, decision>>
  /\ UNCHANGED <<proposer, boxHold, seriesHold, inBox, today>>

setJrwaSeriesLegalHold(h) ==
  /\ h # seriesHold
  /\ seriesHold' = h
  /\ IF h THEN WithdrawHeld({b \in Box : OfSeries(b)}) ELSE UNCHANGED <<status, decision>>
  /\ UNCHANGED <<proposer, boxHold, contentHold, inBox, today>>

-------------------------------------------------------------------------------
(* The rest of the system *)

\* boxService.changeStatus and bulkChangeStatus.
OutsideDisposal(s) == s \notin InDisposal \cup {"disposed"}
changeStatus(S, s) ==
  /\ S # {} /\ OutsideDisposal(s)
  /\ \A b \in S : OutsideDisposal(status[b])
  /\ SetStatus(S, s)
  /\ UNCHANGED <<decision, proposer, holds, inBox, today>>

\* Orders write the status of a whole box without reading it: a delivered checkout,
\* and a returned item or a delivered return order.
HandOut(b) ==
  /\ b \in Ordered
  /\ SetStatus({b}, "checked_out")
  /\ UNCHANGED <<decision, proposer, holds, inBox, today>>

TakeBack(b) ==
  /\ b \in Ordered
  /\ SetStatus({b}, "active")
  /\ UNCHANGED <<decision, proposer, holds, inBox, today>>

\* The target box is not asked for its status, nor the folder for its hold.
bulkAssignBox(f, b) ==
  /\ f \in Movable
  /\ inBox' = [inBox EXCEPT ![f] = b]
  /\ UNCHANGED <<status, decision, proposer, holds, today>>

NextDay ==
  /\ today < MaxDay
  /\ today' = today + 1
  /\ UNCHANGED <<status, decision, proposer, holds, inBox>>

Next ==
  \/ \E u \in User, S \in SUBSET Box :
       initiateDisposal(u, S) \/ approveDisposal(u, S) \/ secondApproveDisposal(u, S)
  \/ \E S \in SUBSET Box :
       \/ reviewDisposal(S) \/ rejectDisposal(S) \/ withdrawDisposal(S)
       \/ recordApDecision(S) \/ completeDisposal(S)
  \/ \E b \in Box, h \in BOOLEAN : setLegalHold(b, h)
  \/ \E t \in HoldTarget, h \in BOOLEAN : setHold(t, h)
  \/ \E h \in BOOLEAN : setJrwaSeriesLegalHold(h)
  \/ \E S \in SUBSET Box, s \in ManualStatus : changeStatus(S, s)
  \/ \E b \in Box : HandOut(b) \/ TakeBack(b)
  \/ \E f \in Folder, b \in Box \cup {NoBox} : bulkAssignBox(f, b)
  \/ NextDay

Spec == Init /\ [][Next]_vars

-------------------------------------------------------------------------------
(* Safety *)

TypeOK ==
  /\ status \in [Box -> Statuses]
  /\ decision \in [Box -> Decision]
  /\ proposer \in [Box -> User \cup {NoUser}]
  /\ boxHold \subseteq Box /\ contentHold \subseteq HoldTarget /\ seriesHold \in BOOLEAN
  /\ inBox \in [Folder -> Box \cup {NoBox}]
  /\ today \in 0 .. MaxDay

\* A box is destroyed only after its review, the approval of somebody who did not
\* propose it, the decision of the State Archives, and, when it was proposed in a
\* large batch (however the later decisions were split), after the approval of a
\* second person who neither proposed nor approved it before.
DisposedAsDecided ==
  \A b \in Box : status[b] = "disposed" =>
    LET d == decision[b] IN
    /\ d.reviewed /\ d.ap
    /\ d.first \in Client \ {proposer[b]}
    /\ Cardinality(d.proposal) >= Threshold => d.second \in Client \ {proposer[b], d.first}

\* What a box under way must be clear of.  Content of draft lists is left out: it can
\* be moved into the box later (see NothingHeldIsDestroyed).
ClearOfHolds(b) ==
  /\ b \notin boxHold
  /\ seriesHold => Series \cap ({b} \cup (Content(b) \ Movable)) = {}
  /\ \A f \in Content(b) \ Movable : ~ Held(f)

\* A legal hold stops the process at once and keeps the box out of it: a hold on the
\* box, on its series, or on its content.
HeldLeavesDisposal == \A b \in Box : status[b] \in InDisposal => ClearOfHolds(b)

\* A new proposal starts from nothing: no decision of an earlier one survives in the
\* columns, also when the box left that proposal by way of an order.
FreshProposal(b) ==
  status[b] = "pending_disposal" =>
    /\ decision[b].first = NoUser /\ decision[b].second = NoUser /\ ~ decision[b].ap
    /\ proposer[b] # NoUser

\* What the approvals of a box under way, or destroyed, rest on.
SizeRemembered(b) ==
  status[b] \in InDisposal \cup {"disposed"} =>
    decision[b].fourEyes = (Cardinality(decision[b].proposal) >= Threshold)

ApprovedByOthers(b) ==
  LET d == decision[b] IN
  status[b] \in {"approved_disposal", "disposed"} =>
    /\ d.reviewed /\ d.first \in Client \ {proposer[b]}
    /\ d.second # NoUser => d.second \in Client \ {proposer[b], d.first}
    /\ d.ap => FullyApproved(b)
    /\ status[b] = "disposed" => d.ap
    /\ d.coolingUntil = d.approvedOn + CoolingDays

\* The decisions recorded for a box are those of its latest proposal, taken in order
\* and by different people.
DisposalInv ==
  \A b \in Box : FreshProposal(b) /\ SizeRemembered(b) /\ ApprovedByOthers(b)

-------------------------------------------------------------------------------
(* Steps *)

Destroyed(b) == status[b] # "disposed" /\ status'[b] = "disposed"

\* Nothing under a legal hold is destroyed, also when held content was moved into a
\* box whose disposal was approved before.
NothingHeldIsDestroyed ==
  [][\A b \in Box : Destroyed(b) =>
       /\ b \notin boxHold
       /\ seriesHold => ~ OfSeries(b)
       /\ \A f \in Content(b) : ~ Held(f)]_vars

\* The client can withdraw for the whole cooling-off period after the latest of its
\* approvals.
CoolingOffRespected ==
  [][\A b \in Box : Destroyed(b) => today >= decision[b].approvedOn + CoolingDays]_vars

\* Disposal is final: no status change, hold or release brings a destroyed box back
\* (orders, which do not ask for the status of their boxes, excepted).
DisposalIsFinal ==
  [][\A b \in Box \ Ordered : status[b] = "disposed" => status'[b] = "disposed"]_vars
===============================================================================
