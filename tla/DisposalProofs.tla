----------------------------- MODULE DisposalProofs -----------------------------
(***************************************************************************)
(* Proofs about module Disposal, for any boxes, content, users and holds,  *)
(* any threshold and any cooling-off period.  Each property is about one   *)
(* box at a time, so each proof looks at one box b and asks of each action *)
(* whether b is in its batch.                                              *)
(***************************************************************************)
EXTENDS Disposal, TLAPS

\* The columns a withdrawn box keeps are a decision like any other.
LEMMA ClearedType == clearedDisposalDecisions \in Decision
PROOF BY DisposalAssumption DEF clearedDisposalDecisions, Decision

\* A new proposal is well typed.
LEMMA ProposedType ==
  ASSUME NEW b \in Box, NEW S \in SUBSET Box
  PROVE  Proposed(b, S) \in Decision
<1>1. NeedsFourEyes(S) \in BOOLEAN
  BY DEF NeedsFourEyes
<1>2. clearedDisposalDecisions \in Decision
  BY ClearedType
<1> QED
  BY <1>1, <1>2, Zenon DEF Proposed, Decision

\* An approval on any day of the clock is well typed.
LEMMA ApprovalType ==
  ASSUME NEW d \in Decision, NEW u \in User, TypeOK
  PROVE  /\ [d EXCEPT !.first = u, !.approvedOn = today,
                      !.coolingUntil = today + CoolingDays] \in Decision
         /\ [d EXCEPT !.second = u, !.approvedOn = today,
                      !.coolingUntil = today + CoolingDays] \in Decision
<1>1. today \in 0 .. MaxDay /\ today + CoolingDays \in 0 .. MaxDay + CoolingDays
  BY DisposalAssumption DEF TypeOK
<1> QED
  BY <1>1, ZenonT(30) DEF Decision

\* The two flags can be set.
LEMMA FlagType ==
  ASSUME NEW d \in Decision
  PROVE  [d EXCEPT !.reviewed = TRUE] \in Decision /\ [d EXCEPT !.ap = TRUE] \in Decision
PROOF BY DEF Decision

\* Writing a status to a batch keeps the statuses typed.
LEMMA StatusType ==
  ASSUME TypeOK, NEW S, NEW s \in Statuses, SetStatus(S, s)
  PROVE  status' \in [Box -> Statuses]
PROOF BY DEF TypeOK, SetStatus

\* Withdrawing a batch keeps statuses and decisions typed.
LEMMA WithdrawnType ==
  ASSUME TypeOK, NEW S, Withdrawn(S)
  PROVE  status' \in [Box -> Statuses] /\ decision' \in [Box -> Decision]
PROOF BY ClearedType, StatusType DEF TypeOK, Withdrawn, Statuses

-------------------------------------------------------------------------------
(* Types *)

\* Every step keeps the types.
LEMMA TypeStep == TypeOK /\ [Next]_vars => TypeOK'
<1> SUFFICES ASSUME TypeOK, [Next]_vars PROVE TypeOK'
  OBVIOUS
<1>1. ASSUME NEW u \in User, NEW S \in SUBSET Box, initiateDisposal(u, S) PROVE TypeOK'
  <2>1. status' \in [Box -> Statuses]
    BY <1>1, StatusType DEF initiateDisposal, Statuses
  <2>2. decision' \in [Box -> Decision]
    BY <1>1, ProposedType DEF initiateDisposal, TypeOK
  <2>3. proposer' \in [Box -> User \cup {NoUser}]
    BY <1>1 DEF initiateDisposal, TypeOK
  <2> QED
    BY <1>1, <2>1, <2>2, <2>3 DEF initiateDisposal, TypeOK, holds
<1>2. ASSUME NEW u \in User, NEW S \in SUBSET Box, approveDisposal(u, S) PROVE TypeOK'
  <2>1. status' \in [Box -> Statuses]
    BY <1>2, StatusType DEF approveDisposal, Statuses
  <2>2. decision' \in [Box -> Decision]
    BY <1>2, ApprovalType DEF approveDisposal, TypeOK, CoolingOff
  <2> QED
    BY <1>2, <2>1, <2>2 DEF approveDisposal, TypeOK, holds
<1>3. ASSUME NEW u \in User, NEW S \in SUBSET Box, secondApproveDisposal(u, S) PROVE TypeOK'
  <2>1. decision' \in [Box -> Decision]
    BY <1>3, ApprovalType DEF secondApproveDisposal, TypeOK, CoolingOff
  <2> QED
    BY <1>3, <2>1 DEF secondApproveDisposal, TypeOK, holds
<1>4. ASSUME NEW S \in SUBSET Box, reviewDisposal(S) PROVE TypeOK'
  <2>1. decision' \in [Box -> Decision]
    BY <1>4, FlagType DEF reviewDisposal, TypeOK
  <2> QED
    BY <1>4, <2>1 DEF reviewDisposal, TypeOK, holds
<1>5. ASSUME NEW S \in SUBSET Box, rejectDisposal(S) \/ withdrawDisposal(S) PROVE TypeOK'
  BY <1>5, WithdrawnType DEF rejectDisposal, withdrawDisposal, TypeOK, holds
<1>6. ASSUME NEW S \in SUBSET Box, recordApDecision(S) PROVE TypeOK'
  <2>1. decision' \in [Box -> Decision]
    BY <1>6, FlagType DEF recordApDecision, TypeOK
  <2> QED
    BY <1>6, <2>1 DEF recordApDecision, TypeOK, holds
<1>7. ASSUME NEW S \in SUBSET Box, completeDisposal(S) PROVE TypeOK'
  <2>1. status' \in [Box -> Statuses]
    BY <1>7, StatusType DEF completeDisposal, Statuses
  <2> QED
    BY <1>7, <2>1 DEF completeDisposal, TypeOK, holds
<1>8. ASSUME NEW b \in Box, NEW h \in BOOLEAN, setLegalHold(b, h) PROVE TypeOK'
  <2>1. status' \in [Box -> Statuses] /\ decision' \in [Box -> Decision]
    BY <1>8, WithdrawnType DEF setLegalHold, WithdrawHeld, TypeOK
  <2>2. boxHold' \subseteq Box
    BY <1>8 DEF setLegalHold, TypeOK
  <2> QED
    BY <1>8, <2>1, <2>2 DEF setLegalHold, TypeOK
<1>9. ASSUME NEW t \in HoldTarget, NEW h \in BOOLEAN, setHold(t, h) PROVE TypeOK'
  <2>1. status' \in [Box -> Statuses] /\ decision' \in [Box -> Decision]
    BY <1>9, WithdrawnType DEF setHold, WithdrawHeld, TypeOK
  <2>2. contentHold' \subseteq HoldTarget
    BY <1>9 DEF setHold, TypeOK
  <2> QED
    BY <1>9, <2>1, <2>2 DEF setHold, TypeOK
<1>10. ASSUME NEW h \in BOOLEAN, setJrwaSeriesLegalHold(h) PROVE TypeOK'
  <2>1. status' \in [Box -> Statuses] /\ decision' \in [Box -> Decision]
    BY <1>10, WithdrawnType DEF setJrwaSeriesLegalHold, WithdrawHeld, TypeOK
  <2> QED
    BY <1>10, <2>1 DEF setJrwaSeriesLegalHold, TypeOK
<1>11. ASSUME NEW S \in SUBSET Box, NEW s \in ManualStatus, changeStatus(S, s) PROVE TypeOK'
  <2>1. status' \in [Box -> Statuses]
    BY <1>11, StatusType, DisposalAssumption DEF changeStatus
  <2> QED
    BY <1>11, <2>1 DEF changeStatus, TypeOK, holds
<1>12. ASSUME NEW b \in Box, HandOut(b) \/ TakeBack(b) PROVE TypeOK'
  <2>1. status' \in [Box -> Statuses]
    BY <1>12, StatusType DEF HandOut, TakeBack, Statuses
  <2> QED
    BY <1>12, <2>1 DEF HandOut, TakeBack, TypeOK, holds
<1>13. ASSUME NEW f \in Folder, NEW b \in Box \cup {NoBox}, bulkAssignBox(f, b) PROVE TypeOK'
  BY <1>13 DEF bulkAssignBox, TypeOK, holds
<1>14. CASE NextDay
  BY <1>14, DisposalAssumption DEF NextDay, TypeOK, holds
<1>15. CASE UNCHANGED vars
  BY <1>15 DEF vars, TypeOK
<1> QED
  BY <1>1, <1>2, <1>3, <1>4, <1>5, <1>6, <1>7, <1>8, <1>9, <1>10, <1>11, <1>12, <1>13,
     <1>14, <1>15 DEF Next

\* The initial state is well typed.
LEMMA TypeInit == Init => TypeOK
<1> SUFFICES ASSUME Init PROVE TypeOK
  OBVIOUS
<1>1. status \in [Box -> Statuses] /\ decision \in [Box -> Decision]
  BY ClearedType DEF Init, Statuses
<1>2. today \in 0 .. MaxDay
  BY DisposalAssumption DEF Init
<1> QED
  BY <1>1, <1>2 DEF Init, TypeOK

\* Every reachable state of the disposal process is well typed.
THEOREM DisposalTypeCorrect == Spec => []TypeOK
PROOF BY TypeInit, TypeStep, PTL DEF Spec

-------------------------------------------------------------------------------
(* The decisions on a box are complete, in order and by different people *)

Safe(b) == FreshProposal(b) /\ SizeRemembered(b) /\ ApprovedByOthers(b)

\* A step that leaves the columns of a box alone keeps what is known of it.
LEMMA Untouched ==
  ASSUME NEW b \in Box, Safe(b), status'[b] = status[b], decision'[b] = decision[b],
         proposer'[b] = proposer[b]
  PROVE  Safe(b)'
PROOF BY DEF Safe, FreshProposal, SizeRemembered, ApprovedByOthers, FullyApproved

\* Nothing is claimed of a box outside the process.
LEMMA OutsideIsSafe ==
  ASSUME NEW b \in Box, status'[b] \notin InDisposal \cup {"disposed"}
  PROVE  Safe(b)'
PROOF BY DEF Safe, FreshProposal, SizeRemembered, ApprovedByOthers, InDisposal

\* Withdrawing a batch takes its boxes out of the process.
LEMMA WithdrawnIsSafe ==
  ASSUME TypeOK, NEW b \in Box, Safe(b), NEW S, Withdrawn(S), UNCHANGED proposer
  PROVE  Safe(b)'
<1>1. CASE b \in S
  <2>1. status'[b] = "active"
    BY <1>1 DEF Withdrawn, SetStatus
  <2> QED
    BY <2>1, OutsideIsSafe DEF InDisposal
<1>2. CASE b \notin S
  BY <1>2, Untouched DEF Withdrawn, SetStatus
<1> QED
  BY <1>1, <1>2

\* What an approval changes of a decision, and what it leaves alone.
LEMMA ApprovalFields ==
  ASSUME NEW d \in Decision, NEW u, NEW day, NEW until
  PROVE  LET e == [d EXCEPT !.first = u, !.approvedOn = day, !.coolingUntil = until]
             f == [d EXCEPT !.second = u, !.approvedOn = day, !.coolingUntil = until]
         IN  /\ e.reviewed = d.reviewed /\ e.proposal = d.proposal /\ e.fourEyes = d.fourEyes
             /\ e.first = u /\ e.second = d.second /\ e.ap = d.ap
             /\ e.approvedOn = day /\ e.coolingUntil = until
             /\ f.reviewed = d.reviewed /\ f.proposal = d.proposal /\ f.fourEyes = d.fourEyes
             /\ f.first = d.first /\ f.second = u /\ f.ap = d.ap
             /\ f.approvedOn = day /\ f.coolingUntil = until
PROOF BY DEF Decision

\* Every step keeps what is known of every box.
LEMMA SafeStep ==
  ASSUME TypeOK, [Next]_vars, NEW b \in Box, Safe(b)
  PROVE  Safe(b)'
<1>1. ASSUME NEW u \in User, NEW S \in SUBSET Box, initiateDisposal(u, S) PROVE Safe(b)'
  <2>1. CASE b \in S
    <3>1. /\ status'[b] = "pending_disposal" /\ proposer'[b] = u
          /\ decision'[b] = Proposed(b, S)
      BY <1>1, <2>1 DEF initiateDisposal, SetStatus
    <3>2. /\ decision'[b].first = NoUser /\ decision'[b].second = NoUser
          /\ decision'[b].ap = FALSE
          /\ decision'[b].fourEyes = NeedsFourEyes(S) /\ decision'[b].proposal = S
      BY <3>1, Zenon DEF Proposed, clearedDisposalDecisions
    <3> QED
      BY <3>1, <3>2, DisposalAssumption
      DEF Safe, FreshProposal, SizeRemembered, ApprovedByOthers, NeedsFourEyes
  <2>2. CASE b \notin S
    BY <1>1, <2>2, Untouched DEF initiateDisposal, SetStatus
  <2> QED
    BY <2>1, <2>2
<1>2. ASSUME NEW u \in User, NEW S \in SUBSET Box, approveDisposal(u, S) PROVE Safe(b)'
  <2>1. CASE b \in S
    <3> DEFINE d == decision[b]
               e == decision'[b]
    <3>1. /\ status'[b] = "approved_disposal" /\ UNCHANGED proposer
          /\ status[b] = "pending_disposal" /\ d.reviewed /\ proposer[b] # u
          /\ u \in Client
      BY <1>2, <2>1 DEF approveDisposal, SetStatus, Batch, NotOwnProposal
    <3>2. e = [d EXCEPT !.first = u, !.approvedOn = today, !.coolingUntil = today + CoolingDays]
      BY <1>2, <2>1 DEF approveDisposal, CoolingOff
    <3>3. /\ e.reviewed = d.reviewed /\ e.proposal = d.proposal /\ e.fourEyes = d.fourEyes
          /\ e.first = u /\ e.second = d.second /\ e.ap = d.ap
          /\ e.approvedOn = today /\ e.coolingUntil = today + CoolingDays
      BY <3>2, ApprovalFields DEF TypeOK
    <3> QED
      BY <3>1, <3>3 DEF Safe, FreshProposal, SizeRemembered, ApprovedByOthers, InDisposal
  <2>2. CASE b \notin S
    BY <1>2, <2>2, Untouched DEF approveDisposal, SetStatus
  <2> QED
    BY <2>1, <2>2
<1>3. ASSUME NEW u \in User, NEW S \in SUBSET Box, secondApproveDisposal(u, S) PROVE Safe(b)'
  <2>1. CASE b \in S
    <3> DEFINE d == decision[b]
               e == decision'[b]
    <3>1. /\ status'[b] = "approved_disposal" /\ UNCHANGED proposer
          /\ status[b] = "approved_disposal" /\ proposer[b] # u /\ d.first # u
          /\ u \in Client
      BY <1>3, <2>1 DEF secondApproveDisposal, Batch, NotOwnProposal
    <3>2. e = [d EXCEPT !.second = u, !.approvedOn = today, !.coolingUntil = today + CoolingDays]
      BY <1>3, <2>1 DEF secondApproveDisposal, CoolingOff
    <3>3. /\ e.reviewed = d.reviewed /\ e.proposal = d.proposal /\ e.fourEyes = d.fourEyes
          /\ e.first = d.first /\ e.second = u /\ e.ap = d.ap
          /\ e.approvedOn = today /\ e.coolingUntil = today + CoolingDays
      BY <3>2, ApprovalFields DEF TypeOK
    <3>4. u # NoUser
      BY DisposalAssumption
    <3> QED
      BY <3>1, <3>3, <3>4
      DEF Safe, FreshProposal, SizeRemembered, ApprovedByOthers, FullyApproved, InDisposal
  <2>2. CASE b \notin S
    BY <1>3, <2>2, Untouched DEF secondApproveDisposal
  <2> QED
    BY <2>1, <2>2
<1>4. ASSUME NEW S \in SUBSET Box, reviewDisposal(S) PROVE Safe(b)'
  <2>1. CASE b \in S
    <3> DEFINE d == decision[b]
               e == decision'[b]
    <3>1. /\ UNCHANGED <<status, proposer>> /\ status[b] = "pending_disposal"
          /\ e = [d EXCEPT !.reviewed = TRUE]
      BY <1>4, <2>1 DEF reviewDisposal, Batch
    <3>2. /\ e.proposal = d.proposal /\ e.fourEyes = d.fourEyes /\ e.first = d.first
          /\ e.second = d.second /\ e.ap = d.ap
      BY <3>1, Zenon DEF TypeOK, Decision
    <3> QED
      BY <3>1, <3>2 DEF Safe, FreshProposal, SizeRemembered, ApprovedByOthers, InDisposal
  <2>2. CASE b \notin S
    BY <1>4, <2>2, Untouched DEF reviewDisposal
  <2> QED
    BY <2>1, <2>2
<1>5. ASSUME NEW S \in SUBSET Box, rejectDisposal(S) \/ withdrawDisposal(S) PROVE Safe(b)'
  BY <1>5, WithdrawnIsSafe DEF rejectDisposal, withdrawDisposal
<1>6. ASSUME NEW S \in SUBSET Box, recordApDecision(S) PROVE Safe(b)'
  <2>1. CASE b \in S
    <3> DEFINE d == decision[b]
               e == decision'[b]
    <3>1. /\ UNCHANGED <<status, proposer>> /\ status[b] = "approved_disposal"
          /\ e = [d EXCEPT !.ap = TRUE] /\ FullyApproved(b)
      BY <1>6, <2>1 DEF recordApDecision, Batch
    <3>2. /\ e.reviewed = d.reviewed /\ e.proposal = d.proposal /\ e.fourEyes = d.fourEyes
          /\ e.first = d.first /\ e.second = d.second
          /\ e.approvedOn = d.approvedOn /\ e.coolingUntil = d.coolingUntil
      BY <3>1, Zenon DEF TypeOK, Decision
    <3> QED
      BY <3>1, <3>2
      DEF Safe, FreshProposal, SizeRemembered, ApprovedByOthers, FullyApproved, InDisposal
  <2>2. CASE b \notin S
    BY <1>6, <2>2, Untouched DEF recordApDecision
  <2> QED
    BY <2>1, <2>2
<1>7. ASSUME NEW S \in SUBSET Box, completeDisposal(S) PROVE Safe(b)'
  <2>1. CASE b \in S
    <3>1. /\ UNCHANGED <<decision, proposer>> /\ status[b] = "approved_disposal"
          /\ status'[b] = "disposed" /\ decision[b].ap
      BY <1>7, <2>1 DEF completeDisposal, Batch, SetStatus
    <3> QED
      BY <3>1 DEF Safe, FreshProposal, SizeRemembered, ApprovedByOthers, FullyApproved, InDisposal
  <2>2. CASE b \notin S
    BY <1>7, <2>2, Untouched DEF completeDisposal, SetStatus
  <2> QED
    BY <2>1, <2>2
<1>8. ASSUME NEW c \in Box, NEW h \in BOOLEAN, setLegalHold(c, h) PROVE Safe(b)'
  BY <1>8, WithdrawnIsSafe, Untouched DEF setLegalHold, WithdrawHeld
<1>9. ASSUME NEW t \in HoldTarget, NEW h \in BOOLEAN, setHold(t, h) PROVE Safe(b)'
  BY <1>9, WithdrawnIsSafe, Untouched DEF setHold, WithdrawHeld
<1>10. ASSUME NEW h \in BOOLEAN, setJrwaSeriesLegalHold(h) PROVE Safe(b)'
  BY <1>10, WithdrawnIsSafe, Untouched DEF setJrwaSeriesLegalHold, WithdrawHeld
<1>11. ASSUME NEW S \in SUBSET Box, NEW s \in ManualStatus, changeStatus(S, s) PROVE Safe(b)'
  <2>1. CASE b \in S
    BY <1>11, <2>1, OutsideIsSafe DEF changeStatus, SetStatus, OutsideDisposal
  <2>2. CASE b \notin S
    BY <1>11, <2>2, Untouched DEF changeStatus, SetStatus
  <2> QED
    BY <2>1, <2>2
<1>12. ASSUME NEW c \in Box, HandOut(c) \/ TakeBack(c) PROVE Safe(b)'
  <2>1. CASE b = c
    <3>1. status'[b] \in {"active", "checked_out"}
      BY <1>12, <2>1 DEF HandOut, TakeBack, SetStatus
    <3> QED
      BY <3>1, OutsideIsSafe DEF InDisposal
  <2>2. CASE b # c
    BY <1>12, <2>2, Untouched DEF HandOut, TakeBack, SetStatus
  <2> QED
    BY <2>1, <2>2
<1>13. ASSUME NEW f \in Folder, NEW c \in Box \cup {NoBox}, bulkAssignBox(f, c) PROVE Safe(b)'
  BY <1>13, Untouched DEF bulkAssignBox
<1>14. CASE NextDay \/ UNCHANGED vars
  BY <1>14, Untouched DEF NextDay, vars
<1> QED
  BY <1>1, <1>2, <1>3, <1>4, <1>5, <1>6, <1>7, <1>8, <1>9, <1>10, <1>11, <1>12, <1>13,
     <1>14 DEF Next

\* The decisions recorded for a box are always those of its latest proposal, taken in
\* order and by different people.
THEOREM DisposalInvariant == Spec => []DisposalInv
<1>1. Init => DisposalInv
  BY DEF Init, DisposalInv, FreshProposal, SizeRemembered, ApprovedByOthers, InDisposal
<1>2. TypeOK /\ DisposalInv /\ [Next]_vars => DisposalInv'
  BY SafeStep DEF DisposalInv, Safe
<1> QED
  BY <1>1, <1>2, DisposalTypeCorrect, PTL DEF Spec

\* No box is destroyed without all its decisions, a second approval for every box of a
\* large proposal included.
THEOREM DecidedBeforeDisposal == Spec => []DisposedAsDecided
<1>1. DisposalInv => DisposedAsDecided
  <2> SUFFICES ASSUME DisposalInv, NEW b \in Box, status[b] = "disposed"
               PROVE  LET d == decision[b] IN
                      /\ d.reviewed /\ d.ap
                      /\ d.first \in Client \ {proposer[b]}
                      /\ Cardinality(d.proposal) >= Threshold
                           => d.second \in Client \ {proposer[b], d.first}
    BY DEF DisposedAsDecided
  <2>1. SizeRemembered(b) /\ ApprovedByOthers(b)
    BY DEF DisposalInv
  <2> QED
    BY <2>1 DEF SizeRemembered, ApprovedByOthers, FullyApproved
<1> QED
  BY <1>1, DisposalInvariant, PTL

-------------------------------------------------------------------------------
(* Legal holds *)

ClearIfUnderWay(b) == status[b] \in InDisposal => ClearOfHolds(b)

\* A step that changes no hold and moves nothing keeps the boxes clear, when a box that
\* enters the process was eligible.
LEMMA DecisionKeepsClear ==
  ASSUME NEW b \in Box, ClearIfUnderWay(b), UNCHANGED <<holds, inBox>>,
         status'[b] = status[b] \/ status'[b] \notin InDisposal \/ disposalEligibility(b)
  PROVE  ClearIfUnderWay(b)'
<1>1. ClearOfHolds(b) => ClearOfHolds(b)'
  BY DEF ClearOfHolds, holds, Content, Held
<1>2. disposalEligibility(b) => ClearOfHolds(b)
  BY DEF disposalEligibility, ClearOfHolds, OfSeries
<1> QED
  BY <1>1, <1>2 DEF ClearIfUnderWay

\* A withdrawn box is not under way; the others keep their status.
LEMMA WithdrawHeldStatus ==
  ASSUME TypeOK, NEW b \in Box, NEW S, WithdrawHeld(S)
  PROVE  /\ status'[b] \in InDisposal => status[b] \in InDisposal
         /\ b \in S => status'[b] \notin InDisposal
PROOF BY DEF WithdrawHeld, Withdrawn, SetStatus, TypeOK, InDisposal

\* Every step keeps the boxes under way clear of holds.
LEMMA ClearStep ==
  ASSUME TypeOK, [Next]_vars, NEW b \in Box, ClearIfUnderWay(b)
  PROVE  ClearIfUnderWay(b)'
<1>1. ASSUME NEW u \in User, NEW S \in SUBSET Box,
             initiateDisposal(u, S) \/ approveDisposal(u, S) \/ secondApproveDisposal(u, S)
      PROVE  ClearIfUnderWay(b)'
  BY <1>1, DecisionKeepsClear
  DEF initiateDisposal, approveDisposal, secondApproveDisposal, Eligible, SetStatus, holds
<1>2. ASSUME NEW S \in SUBSET Box,
             \/ reviewDisposal(S) \/ rejectDisposal(S) \/ withdrawDisposal(S)
             \/ recordApDecision(S) \/ completeDisposal(S)
      PROVE  ClearIfUnderWay(b)'
  <2>1. UNCHANGED <<holds, inBox>>
    BY <1>2 DEF reviewDisposal, rejectDisposal, withdrawDisposal, recordApDecision,
                completeDisposal, holds
  <2>2. status'[b] = status[b] \/ status'[b] \notin InDisposal
    BY <1>2 DEF reviewDisposal, rejectDisposal, withdrawDisposal, recordApDecision,
                completeDisposal, Withdrawn, SetStatus, InDisposal
  <2> QED
    BY <2>1, <2>2, DecisionKeepsClear
<1>3. ASSUME NEW c \in Box, NEW h \in BOOLEAN, setLegalHold(c, h) PROVE ClearIfUnderWay(b)'
  <2>1. status'[b] \in InDisposal => status[b] \in InDisposal /\ (h => b # c)
    BY <1>3, WithdrawHeldStatus DEF setLegalHold
  <2> QED
    BY <1>3, <2>1 DEF setLegalHold, ClearIfUnderWay, ClearOfHolds, Content, Held
<1>4. ASSUME NEW t \in HoldTarget, NEW h \in BOOLEAN, setHold(t, h) PROVE ClearIfUnderWay(b)'
  <2>1. status'[b] \in InDisposal => status[b] \in InDisposal /\ (h => b \notin BoxesWith(t))
    BY <1>4, WithdrawHeldStatus DEF setHold
  <2>2. ASSUME status'[b] \in InDisposal, NEW f \in Content(b) \ Movable PROVE ~ Held(f)'
    <3>1. ~ Held(f)
      BY <2>1, <2>2 DEF ClearIfUnderWay, ClearOfHolds
    <3>2. h => f \notin Covers[t]
      BY <2>1, <2>2, DisposalAssumption DEF BoxesWith, Content
    <3> QED
      BY <1>4, <3>1, <3>2 DEF setHold, Held
  <2> QED
    BY <1>4, <2>1, <2>2 DEF setHold, ClearIfUnderWay, ClearOfHolds, Content
<1>5. ASSUME NEW h \in BOOLEAN, setJrwaSeriesLegalHold(h) PROVE ClearIfUnderWay(b)'
  <2>1. status'[b] \in InDisposal => status[b] \in InDisposal /\ (h => ~ OfSeries(b))
    BY <1>5, WithdrawHeldStatus DEF setJrwaSeriesLegalHold
  <2> QED
    BY <1>5, <2>1 DEF setJrwaSeriesLegalHold, ClearIfUnderWay, ClearOfHolds, OfSeries, Content, Held
<1>6. ASSUME NEW S \in SUBSET Box, NEW s \in ManualStatus, changeStatus(S, s)
      PROVE  ClearIfUnderWay(b)'
  BY <1>6, DecisionKeepsClear DEF changeStatus, SetStatus, OutsideDisposal, holds
<1>7. ASSUME NEW c \in Box, HandOut(c) \/ TakeBack(c) PROVE ClearIfUnderWay(b)'
  BY <1>7, DecisionKeepsClear DEF HandOut, TakeBack, SetStatus, InDisposal, holds
<1>8. ASSUME NEW f \in Folder, NEW c \in Box \cup {NoBox}, bulkAssignBox(f, c)
      PROVE  ClearIfUnderWay(b)'
  <2>1. (Content(b) \ Movable)' = Content(b) \ Movable
    BY <1>8 DEF bulkAssignBox, Content, TypeOK
  <2> QED
    BY <1>8, <2>1 DEF bulkAssignBox, ClearIfUnderWay, ClearOfHolds, Held, holds
<1>9. CASE NextDay \/ UNCHANGED vars
  BY <1>9, DecisionKeepsClear DEF NextDay, vars, holds
<1> QED
  BY <1>1, <1>2, <1>3, <1>4, <1>5, <1>6, <1>7, <1>8, <1>9 DEF Next

\* No box under a legal hold, or with content or of a series under one, is under way to
\* its disposal.
THEOREM HeldStaysOut == Spec => []HeldLeavesDisposal
<1>1. Init => HeldLeavesDisposal
  BY DEF Init, HeldLeavesDisposal, InDisposal
<1>2. TypeOK /\ HeldLeavesDisposal /\ [Next]_vars => HeldLeavesDisposal'
  BY ClearStep DEF HeldLeavesDisposal, ClearIfUnderWay
<1> QED
  BY <1>1, <1>2, DisposalTypeCorrect, PTL DEF Spec

-------------------------------------------------------------------------------
(* What destroys a box *)

\* Only completeDisposal does.
LEMMA OnlyCompletionDestroys ==
  ASSUME TypeOK, [Next]_vars, NEW b \in Box, Destroyed(b)
  PROVE  \E S \in SUBSET Box : completeDisposal(S) /\ b \in S
<1>1. ASSUME NEW S, WithdrawHeld(S) \/ Withdrawn(S) PROVE FALSE
  BY <1>1 DEF WithdrawHeld, Withdrawn, SetStatus, Destroyed
<1>2. ASSUME UNCHANGED status PROVE FALSE
  BY <1>2 DEF Destroyed
<1>3. ASSUME NEW S, NEW s, SetStatus(S, s) PROVE s = "disposed" /\ b \in S
  BY <1>3 DEF SetStatus, Destroyed
<1>4. ASSUME NEW u \in User, NEW S \in SUBSET Box,
             initiateDisposal(u, S) \/ approveDisposal(u, S) \/ secondApproveDisposal(u, S)
      PROVE  FALSE
  <2>1. ~ SetStatus(S, "pending_disposal") /\ ~ SetStatus(S, "approved_disposal")
    BY <1>3
  <2> QED
    BY <1>2, <1>4, <2>1 DEF initiateDisposal, approveDisposal, secondApproveDisposal
<1>5. ASSUME NEW S \in SUBSET Box,
             \/ reviewDisposal(S) \/ rejectDisposal(S) \/ withdrawDisposal(S)
             \/ recordApDecision(S)
      PROVE  FALSE
  BY <1>1, <1>2, <1>5 DEF reviewDisposal, rejectDisposal, withdrawDisposal, recordApDecision
<1>6. ASSUME NEW S \in SUBSET Box, completeDisposal(S) PROVE b \in S
  BY <1>3, <1>6 DEF completeDisposal
<1>7. ASSUME \/ \E c \in Box, h \in BOOLEAN : setLegalHold(c, h)
             \/ \E t \in HoldTarget, h \in BOOLEAN : setHold(t, h)
             \/ \E h \in BOOLEAN : setJrwaSeriesLegalHold(h)
      PROVE  FALSE
  BY <1>1, <1>2, <1>7 DEF setLegalHold, setHold, setJrwaSeriesLegalHold
<1>8. ASSUME NEW S \in SUBSET Box, NEW s \in ManualStatus, changeStatus(S, s) PROVE FALSE
  BY <1>3, <1>8 DEF changeStatus, OutsideDisposal
<1>9. ASSUME NEW c \in Box, HandOut(c) \/ TakeBack(c) PROVE FALSE
  BY <1>3, <1>9 DEF HandOut, TakeBack
<1>10. CASE \/ \E f \in Folder, c \in Box \cup {NoBox} : bulkAssignBox(f, c)
            \/ NextDay \/ UNCHANGED vars
  BY <1>2, <1>10 DEF bulkAssignBox, NextDay, vars
<1> QED
  BY <1>4, <1>5, <1>6, <1>7, <1>8, <1>9, <1>10 DEF Next

\* Nothing under a legal hold is destroyed.
THEOREM HeldIsNotDestroyed == Spec => NothingHeldIsDestroyed
<1>1. TypeOK /\ [Next]_vars =>
        [\A b \in Box : Destroyed(b) => /\ b \notin boxHold
                                        /\ seriesHold => ~ OfSeries(b)
                                        /\ \A f \in Content(b) : ~ Held(f)]_vars
  BY OnlyCompletionDestroys DEF completeDisposal, Eligible, disposalEligibility
<1> QED
  BY <1>1, DisposalTypeCorrect, PTL DEF Spec, NothingHeldIsDestroyed

\* No box is destroyed before the cooling-off period after its latest approval is over.
THEOREM CoolingOffKept == Spec => CoolingOffRespected
<1>1. TypeOK /\ DisposalInv /\ [Next]_vars =>
        [\A b \in Box : Destroyed(b) => today >= decision[b].approvedOn + CoolingDays]_vars
  BY OnlyCompletionDestroys DEF completeDisposal, Batch, DisposalInv, ApprovedByOthers
<1> QED
  BY <1>1, DisposalTypeCorrect, DisposalInvariant, PTL DEF Spec, CoolingOffRespected

\* A destroyed box that no order holds stays destroyed.
THEOREM DisposalStaysFinal == Spec => DisposalIsFinal
<1>1. ASSUME TypeOK, [Next]_vars, NEW b \in Box \ Ordered, status[b] = "disposed"
      PROVE  status'[b] = "disposed"
  <2>1. ASSUME NEW S, NEW s, SetStatus(S, s), b \notin S PROVE status'[b] = "disposed"
    BY <1>1, <2>1 DEF SetStatus
  <2>2. ASSUME NEW S, WithdrawHeld(S) PROVE status'[b] = "disposed"
    BY <1>1, <2>2 DEF WithdrawHeld, Withdrawn, SetStatus, InDisposal
  <2>3. ASSUME NEW u \in User, NEW S \in SUBSET Box,
               initiateDisposal(u, S) \/ approveDisposal(u, S) \/ secondApproveDisposal(u, S)
        PROVE  status'[b] = "disposed"
    <3>1. b \notin S
      BY <1>1, <2>3 DEF initiateDisposal, approveDisposal, secondApproveDisposal, Batch
    <3> QED
      BY <1>1, <2>3, <3>1
      DEF initiateDisposal, approveDisposal, secondApproveDisposal, SetStatus
  <2>4. ASSUME NEW S \in SUBSET Box,
               \/ reviewDisposal(S) \/ rejectDisposal(S) \/ withdrawDisposal(S)
               \/ recordApDecision(S) \/ completeDisposal(S)
        PROVE  status'[b] = "disposed"
    <3>1. b \notin S
      BY <1>1, <2>4 DEF reviewDisposal, rejectDisposal, withdrawDisposal, recordApDecision,
                        completeDisposal, Batch
    <3> QED
      BY <1>1, <2>1, <2>4, <3>1 DEF reviewDisposal, rejectDisposal, withdrawDisposal,
                                    recordApDecision, completeDisposal, Withdrawn
  <2>5. ASSUME \/ \E c \in Box, h \in BOOLEAN : setLegalHold(c, h)
               \/ \E t \in HoldTarget, h \in BOOLEAN : setHold(t, h)
               \/ \E h \in BOOLEAN : setJrwaSeriesLegalHold(h)
        PROVE  status'[b] = "disposed"
    BY <1>1, <2>2, <2>5 DEF setLegalHold, setHold, setJrwaSeriesLegalHold
  <2>6. ASSUME NEW S \in SUBSET Box, NEW s \in ManualStatus, changeStatus(S, s)
        PROVE  status'[b] = "disposed"
    <3>1. b \notin S
      BY <1>1, <2>6 DEF changeStatus, OutsideDisposal
    <3> QED
      BY <2>1, <2>6, <3>1 DEF changeStatus
  <2>7. ASSUME NEW c \in Box, HandOut(c) \/ TakeBack(c) PROVE status'[b] = "disposed"
    BY <1>1, <2>1, <2>7 DEF HandOut, TakeBack
  <2>8. CASE \/ \E f \in Folder, c \in Box \cup {NoBox} : bulkAssignBox(f, c)
             \/ NextDay \/ UNCHANGED vars
    BY <1>1, <2>8 DEF bulkAssignBox, NextDay, vars
  <2> QED
    BY <1>1, <2>3, <2>4, <2>5, <2>6, <2>7, <2>8 DEF Next
<1>2. TypeOK /\ [Next]_vars =>
        [\A b \in Box \ Ordered : status[b] = "disposed" => status'[b] = "disposed"]_vars
  BY <1>1
<1> QED
  BY <1>2, DisposalTypeCorrect, PTL DEF Spec, DisposalIsFinal
===============================================================================
