--------------------------- MODULE SlotVoteProofs ---------------------------
(***************************************************************************)
(* The slot's votes, proved for every configuration, set of columns and    *)
(* choice of instants.  Three critical sections of r.mu decide a vote, on  *)
(* goroutines of their own, so the invariant ties the claim, the recorded  *)
(* choice and the emission to what had been seen, and the choices not made *)
(* yet to the goroutine that is about to make them.                        *)
(***************************************************************************)
EXTENDS SlotVote, FiniteSetTheorems, TLAPS

\* A vote is claimed once and its one emission follows the claim.
ClaimInv ==
  \A k \in Votes :
    /\ alreadyVoted[k] <=> emission[k] # "none"
    /\ emitted[k].n = IF emission[k] = "done" THEN 1 ELSE 0

\* The vote is ready early enough for the block.
InTime(k) == Ready(k) /\ Processed(k) + Prep <= BlockDue

\* A claim for the block was earned, and stays so: what is seen stays seen.
BlockInv ==
  \A k \in Votes :
    alreadyVoted[k] /\ votedForSlotBlock[k] =>
      InTime(k) /\ emitAt[k] = Processed(k) + Prep /\ emission[k] # "ready"

\* What was published is the recorded choice, at its instant.
EmittedInv ==
  \A k \in Votes :
    emission[k] = "done" =>
      /\ emitted[k].block <=> votedForSlotBlock[k]
      /\ votedForSlotBlock[k] => emitted[k].at >= emitAt[k]

\* The gate of a node that waits for columns opens with all of them.
DataInv ==
  columnsComplete /\ ~role.own /\ ~role.epbs => haveColumn = role.custody

IInv == TypeOK /\ ClaimInv /\ BlockInv /\ EmittedInv /\ DataInv

\* Among custody columns, the count is complete with all of them only.
LEMMA CompleteIsAll ==
  ASSUME TypeOK, NEW have \in SUBSET role.custody
  PROVE  Complete(have) <=> have = role.custody
<1>1. IsFiniteSet(role.custody)
  BY RolesAssumption, ColumnsFinite, FS_EmptySet DEF TypeOK, AllRoles
<1> QED BY <1>1, FS_Subset DEF Complete

\* The goroutine that is about to try vote k.
Pending(k) ==
  IF k = "gated" THEN block = "early" \/ \E c \in Columns : column[c] = "early"
                 ELSE block \in {"early", "sync"}

\* A vote that is ready in time and not claimed is claimed at this instant.
UnclaimedInv ==
  \A k \in Votes :
    Active(k) /\ ~alreadyVoted[k] /\ InTime(k) => now = Processed(k) /\ Pending(k)

\* A claim for the prior head came when the deadline was over, without the block.
PriorInv ==
  \A k \in Votes :
    alreadyVoted[k] /\ ~votedForSlotBlock[k] =>
      /\ now >= BlockDue /\ ~InTime(k) /\ emission[k] # "armed"
      /\ emission[k] = "done" => emitted[k].at >= BlockDue

\* What the two need of the clock and of the goroutines.
ClockInv ==
  /\ blockSeenAt <= now /\ columnsCompleteAt <= now
  /\ block \in {"pending", "record"} => ~blockSeen
  /\ timer \in {"emitting", "sync", "done"} => now >= BlockDue

PInv == IInv /\ UnclaimedInv /\ PriorInv /\ ClockInv

-----------------------------------------------------------------------------
\* Init establishes the types.
LEMMA InitType == Init => TypeOK
<1> SUFFICES ASSUME Init PROVE TypeOK
  OBVIOUS
<1> USE TimesAssumption DEF Init, Votes, Fixed, Times
<1>1. columnsComplete \in BOOLEAN
  BY Zenon
<1>2. blockAt \in Nat /\ payloadAt \in Nat
  BY DEF publishDraws
<1>3. haveColumn \subseteq role.custody
  BY Zenon
<1>4. blockSeen \in BOOLEAN /\ payloadSeen \in BOOLEAN /\ dialReady \in BOOLEAN
  BY Zenon
<1>5. alreadyVoted \in [Votes -> BOOLEAN] /\ votedForSlotBlock \in [Votes -> BOOLEAN]
  OBVIOUS
<1>6. /\ emitted \in [Votes -> [n : Nat, at : Times, block : BOOLEAN]]
      /\ ptcVote \in [n : Nat, present : BOOLEAN]
  OBVIOUS
<1> QED  BY <1>1, <1>2, <1>3, <1>4, <1>5, <1>6 DEF TypeOK

\* Every step keeps the types.
LEMMA NextType == TypeOK /\ [Next]_vars => TypeOK'
<1> SUFFICES ASSUME TypeOK, [Next]_vars PROVE TypeOK'
  OBVIOUS
<1> USE TimesAssumption DEF TypeOK, seenVars, claimVars, drawn, Votes, Fixed, Times
<1>1. CASE setupSlot
  BY <1>1 DEF setupSlot
<1>2. CASE register
  BY <1>2 DEF register
<1>3. CASE publishBlock
  <2>1. CASE registered = "yes" /\ ~columnsComplete
    BY <1>3, <2>1 DEF publishBlock, markColumnsComplete
  <2>2. CASE ~(registered = "yes" /\ ~columnsComplete)
    BY <1>3, <2>2 DEF publishBlock, markColumnsComplete
  <2> QED  BY <2>1, <2>2
<1>4. CASE publishConsensusBlock
  BY <1>4 DEF publishConsensusBlock
<1>5. CASE onOwnBlockProcessed
  <2>1. CASE registered = "yes"
    BY <1>5, <2>1 DEF onOwnBlockProcessed, onBlockProcessed
  <2>2. CASE registered # "yes"
    BY <1>5, <2>2 DEF onOwnBlockProcessed, onBlockProcessed
  <2> QED  BY <2>1, <2>2
<1>6. ASSUME NEW k \in Votes, tryEmit(k)
      PROVE  /\ alreadyVoted' \in [Votes -> BOOLEAN] /\ votedForSlotBlock' \in [Votes -> BOOLEAN]
             /\ emission' \in [Votes -> {"none", "armed", "ready", "done"}]
             /\ emitAt' \in [Votes -> 0..BlockDue]
  <2>1. Processed(k) \in Times
    BY DEF Processed, laterOf
  <2>2. emitDecision(Ready(k), Processed(k)).at \in 0..BlockDue
    BY <2>1 DEF emitDecision
  <2>3. CASE UNCHANGED claimVars
    BY <2>3
  <2>4. CASE ~UNCHANGED claimVars
    <3>1. /\ alreadyVoted' = [alreadyVoted EXCEPT ![k] = TRUE]
          /\ votedForSlotBlock' = [votedForSlotBlock EXCEPT ![k] = TRUE]
          /\ emission' = [emission EXCEPT ![k] = "armed"]
          /\ emitAt' = [emitAt EXCEPT ![k] = emitDecision(Ready(k), Processed(k)).at]
      BY <1>6, <2>4, Zenon DEF tryEmit
    <3> QED  BY <2>2, <3>1
  <2> QED  BY <2>3, <2>4
<1>7. ASSUME NEW k \in Votes, claimPrior(k)
      PROVE  /\ alreadyVoted' \in [Votes -> BOOLEAN] /\ votedForSlotBlock' \in [Votes -> BOOLEAN]
             /\ emission' \in [Votes -> {"none", "armed", "ready", "done"}]
             /\ emitAt' \in [Votes -> 0..BlockDue]
  <2>1. CASE VoteParent(k)
    <3>1. /\ alreadyVoted' = [alreadyVoted EXCEPT ![k] = TRUE]
          /\ votedForSlotBlock' = [votedForSlotBlock EXCEPT ![k] = FALSE]
          /\ emission' = [emission EXCEPT ![k] = "ready"]
          /\ emitAt' = emitAt
      BY <1>7, <2>1, Zenon DEF claimPrior
    <3> QED  BY <3>1
  <2>2. CASE ~VoteParent(k)
    BY <1>7, <2>2 DEF claimPrior
  <2> QED  BY <2>1, <2>2
<1>8. CASE tryEarlyEmit
  BY <1>8, <1>6 DEF tryEarlyEmit
<1>9. CASE trySyncEmit
  BY <1>9, <1>6 DEF trySyncEmit
<1>10. CASE \E c \in Columns : tryEarlyEmitColumn(c)
  BY <1>10, <1>6 DEF tryEarlyEmitColumn
<1>11. CASE onPayloadProcessed
  BY <1>11 DEF onPayloadProcessed
<1>12. CASE markCustodyHeld
  BY <1>12 DEF markCustodyHeld
<1>13. CASE onBlockDeadline
  BY <1>13, <1>7 DEF onBlockDeadline
<1>14. CASE onBlockDeadlineSync
  BY <1>14, <1>7 DEF onBlockDeadlineSync
<1>15. CASE \E k \in Votes : publishVote(k)
  BY <1>15 DEF publishVote
<1>16. CASE emitAggregate \/ emitSyncContribution
  BY <1>16 DEF emitAggregate, emitSyncContribution, burst
<1>17. CASE emitPTCVote
  BY <1>17 DEF emitPTCVote
<1>18. CASE endSlot
  BY <1>18 DEF endSlot
<1>19. CASE onReceiveBlock
  <2>1. CASE registered = "yes"
    BY <1>19, <2>1 DEF onReceiveBlock, onBlockProcessed
  <2>2. CASE registered # "yes"
    BY <1>19, <2>2 DEF onReceiveBlock, onBlockProcessed
  <2> QED  BY <2>1, <2>2
<1>20. CASE \E c \in Columns : onColumnProcessed(c)
  <2>1. PICK c \in Columns : onColumnProcessed(c)
    BY <1>20
  <2>2. CASE registered # "yes" \/ c \in haveColumn
    BY <2>1, <2>2 DEF onColumnProcessed
  <2>3. CASE ~(registered # "yes" \/ c \in haveColumn)
    <3> DEFINE complete == ~columnsComplete /\ Complete(haveColumn \cup {c})
    <3>1. /\ haveColumn' = haveColumn \cup {c}
          /\ columnsComplete' = (columnsComplete \/ complete)
          /\ columnsCompleteAt' = IF complete THEN now ELSE columnsCompleteAt
          /\ column' = [column EXCEPT ![c] = IF complete THEN "early" ELSE "done"]
      BY <2>1, <2>3 DEF onColumnProcessed
    <3> HIDE DEF complete
    <3>2. columnsComplete' \in BOOLEAN
      BY <3>1, Zenon
    <3>3. columnsCompleteAt' \in Times /\ column' \in [Columns -> {"pending", "early", "done"}]
      BY <3>1
    <3>4. haveColumn' \subseteq role'.custody
      BY <2>1, <3>1 DEF onColumnProcessed
    <3> QED  BY <2>1, <3>2, <3>3, <3>4 DEF onColumnProcessed
  <2> QED  BY <2>2, <2>3
<1>21. CASE dialsUp
  BY <1>21 DEF dialsUp
<1>22. CASE Tick
  BY <1>22 DEF Tick
<1>23. CASE UNCHANGED vars
  BY <1>23 DEF vars
<1> QED
  BY <1>1, <1>2, <1>3, <1>4, <1>5, <1>8, <1>9, <1>10, <1>11, <1>12, <1>13, <1>14, <1>15,
     <1>16, <1>17, <1>18, <1>19, <1>20, <1>21, <1>22, <1>23
  DEF Next, Program, Network, emitGated, emitSyncMessage

-----------------------------------------------------------------------------
\* What a vote waits for is recorded once: no step changes it afterwards.
LEMMA SeenStaysSeen ==
  ASSUME TypeOK, [Next]_vars, NEW k \in Votes, Ready(k)
  PROVE  Ready(k)' /\ Processed(k)' = Processed(k)
<1> USE DEF Ready, Processed, laterOf, seenVars
<1>1. CASE publishBlock
  BY <1>1 DEF publishBlock, markColumnsComplete, TypeOK
<1>2. CASE onOwnBlockProcessed \/ onReceiveBlock
  BY <1>2 DEF onOwnBlockProcessed, onReceiveBlock, onBlockProcessed
<1>3. CASE \E c \in Columns : onColumnProcessed(c)
  <2>1. PICK c \in Columns : onColumnProcessed(c)
    BY <1>3
  <2>2. blockSeen' = blockSeen /\ blockSeenAt' = blockSeenAt
    BY <2>1 DEF onColumnProcessed
  <2>3. columnsComplete => columnsComplete' /\ columnsCompleteAt' = columnsCompleteAt
    BY <2>1 DEF onColumnProcessed
  <2> QED  BY <2>2, <2>3
<1>4. CASE onPayloadProcessed \/ markCustodyHeld
  BY <1>4 DEF onPayloadProcessed, markCustodyHeld
<1>5. CASE UNCHANGED seenVars
  BY <1>5
<1>6. \/ publishBlock \/ onOwnBlockProcessed \/ onReceiveBlock
      \/ (\E c \in Columns : onColumnProcessed(c))
      \/ onPayloadProcessed \/ markCustodyHeld \/ UNCHANGED seenVars
  BY DEF Next, Program, Network, vars, setupSlot, register, publishConsensusBlock, tryEarlyEmit,
     trySyncEmit, tryEarlyEmitColumn, onBlockDeadline, onBlockDeadlineSync, emitGated,
     emitSyncMessage, publishVote, emitAggregate, emitSyncContribution, burst, emitPTCVote,
     endSlot, dialsUp, Tick
<1> QED  BY <1>1, <1>2, <1>3, <1>4, <1>5, <1>6

\* The steps that touch a vote: the early path, the deadline and the publish.
LEMMA VoteSteps ==
  ASSUME [Next]_vars
  PROVE  \/ UNCHANGED <<claimVars, emitted>>
         \/ /\ UNCHANGED <<now, role, seenVars, emitted>>
            /\ \/ \E k \in Votes : tryEmit(k)
               \/ /\ onBlockDeadline \/ onBlockDeadlineSync
                  /\ \E k \in Votes : claimPrior(k)
         \/ \E k \in Votes : publishVote(k)
<1> USE DEF Votes
<1>1. CASE tryEarlyEmit \/ trySyncEmit \/ (\E c \in Columns : tryEarlyEmitColumn(c))
  BY <1>1 DEF tryEarlyEmit, trySyncEmit, tryEarlyEmitColumn, drawn
<1>2. CASE onBlockDeadline \/ onBlockDeadlineSync
  BY <1>2 DEF onBlockDeadline, onBlockDeadlineSync, drawn
<1>3. CASE emitGated \/ emitSyncMessage
  BY <1>3 DEF emitGated, emitSyncMessage
<1>4. CASE UNCHANGED <<claimVars, emitted>>
  BY <1>4
<1>5. \/ tryEarlyEmit \/ trySyncEmit \/ (\E c \in Columns : tryEarlyEmitColumn(c))
      \/ onBlockDeadline \/ onBlockDeadlineSync \/ emitGated \/ emitSyncMessage
      \/ UNCHANGED <<claimVars, emitted>>
  BY DEF Next, Program, Network, vars, setupSlot, register, publishBlock, publishConsensusBlock,
     onOwnBlockProcessed, onReceiveBlock, onColumnProcessed, onPayloadProcessed, markCustodyHeld,
     emitAggregate, emitSyncContribution, burst, emitPTCVote, endSlot, dialsUp, Tick
<1> QED  BY <1>1, <1>2, <1>3, <1>4, <1>5

-----------------------------------------------------------------------------
\* What the early path's critical section does to vote k.
LEMMA EarlyClaim ==
  ASSUME TypeOK, NEW k \in Votes, tryEmit(k)
  PROVE  \/ UNCHANGED claimVars /\ (Active(k) /\ ~alreadyVoted[k] => ~InTime(k))
         \/ /\ ~alreadyVoted[k] /\ InTime(k)
            /\ alreadyVoted' = [alreadyVoted EXCEPT ![k] = TRUE]
            /\ votedForSlotBlock' = [votedForSlotBlock EXCEPT ![k] = TRUE]
            /\ emission' = [emission EXCEPT ![k] = "armed"]
            /\ emitAt' = [emitAt EXCEPT ![k] = Processed(k) + Prep]
<1> DEFINE d == emitDecision(Ready(k), Processed(k))
<1>1. d.block <=> InTime(k)
  BY DEF emitDecision, InTime
<1>2. InTime(k) => d.at = Processed(k) + Prep
  BY DEF emitDecision, InTime
<1>3. \/ UNCHANGED claimVars /\ ~(Active(k) /\ ~alreadyVoted[k] /\ d.block)
      \/ /\ Active(k) /\ ~alreadyVoted[k] /\ d.block
         /\ alreadyVoted' = [alreadyVoted EXCEPT ![k] = TRUE]
         /\ votedForSlotBlock' = [votedForSlotBlock EXCEPT ![k] = TRUE]
         /\ emission' = [emission EXCEPT ![k] = "armed"]
         /\ emitAt' = [emitAt EXCEPT ![k] = d.at]
  BY Zenon DEF tryEmit
<1> HIDE DEF d
<1> QED  BY <1>1, <1>2, <1>3, Zenon

\* What the deadline's critical section does to vote k.
LEMMA PriorClaim ==
  ASSUME NEW k \in Votes, claimPrior(k)
  PROVE  \/ UNCHANGED claimVars /\ ~(Active(k) /\ ~alreadyVoted[k])
         \/ /\ Active(k) /\ ~alreadyVoted[k]
            /\ alreadyVoted' = [alreadyVoted EXCEPT ![k] = TRUE]
            /\ votedForSlotBlock' = [votedForSlotBlock EXCEPT ![k] = FALSE]
            /\ emission' = [emission EXCEPT ![k] = "ready"]
            /\ UNCHANGED emitAt
  BY Zenon DEF claimPrior, VoteParent

\* Init establishes the invariant.
LEMMA InitIInv == Init => IInv
<1> SUFFICES ASSUME Init PROVE IInv
  OBVIOUS
<1>1. ClaimInv /\ BlockInv /\ EmittedInv
  BY DEF Init, ClaimInv, BlockInv, EmittedInv
<1>2. DataInv
  BY Zenon DEF Init, DataInv
<1> QED  BY <1>1, <1>2, InitType DEF IInv

\* Every step keeps the claims, the emissions and what justifies them together.
LEMMA NextVotes ==
  ASSUME IInv, [Next]_vars
  PROVE  ClaimInv' /\ BlockInv' /\ EmittedInv'
<1> USE DEF IInv
<1>0. TypeOK'
  BY NextType
<1>1. \A k \in Votes : Ready(k) => Ready(k)' /\ Processed(k)' = Processed(k)
  BY SeenStaysSeen
<1>2. \A k \in Votes : InTime(k) => InTime(k)' /\ Processed(k)' = Processed(k)
  BY <1>1, Zenon DEF InTime
<1>3. CASE UNCHANGED <<claimVars, emitted>>
  <2>1. /\ alreadyVoted' = alreadyVoted /\ votedForSlotBlock' = votedForSlotBlock
        /\ emission' = emission /\ emitAt' = emitAt /\ emitted' = emitted
    BY <1>3 DEF claimVars
  <2> QED  BY <2>1, <1>2 DEF ClaimInv, BlockInv, EmittedInv
<1>4. ASSUME NEW k \in Votes, tryEmit(k), emitted' = emitted PROVE ClaimInv' /\ BlockInv' /\ EmittedInv'
  <2>1. CASE UNCHANGED claimVars
    BY <2>1, <1>3, <1>4
  <2>2. CASE /\ ~alreadyVoted[k] /\ InTime(k)
             /\ alreadyVoted' = [alreadyVoted EXCEPT ![k] = TRUE]
             /\ votedForSlotBlock' = [votedForSlotBlock EXCEPT ![k] = TRUE]
             /\ emission' = [emission EXCEPT ![k] = "armed"]
             /\ emitAt' = [emitAt EXCEPT ![k] = Processed(k) + Prep]
    <3>1. ClaimInv'
      BY <2>2, <1>4 DEF ClaimInv, TypeOK
    <3>2. BlockInv'
      BY <2>2, <1>2 DEF BlockInv, TypeOK
    <3>3. EmittedInv'
      BY <2>2, <1>4 DEF EmittedInv, TypeOK
    <3> QED  BY <3>1, <3>2, <3>3
  <2> QED  BY <2>1, <2>2, <1>4, EarlyClaim
<1>5. ASSUME NEW k \in Votes, claimPrior(k), emitted' = emitted PROVE ClaimInv' /\ BlockInv' /\ EmittedInv'
  <2>1. CASE UNCHANGED claimVars
    BY <2>1, <1>3, <1>5
  <2>2. CASE /\ ~alreadyVoted[k]
             /\ alreadyVoted' = [alreadyVoted EXCEPT ![k] = TRUE]
             /\ votedForSlotBlock' = [votedForSlotBlock EXCEPT ![k] = FALSE]
             /\ emission' = [emission EXCEPT ![k] = "ready"]
             /\ UNCHANGED emitAt
    <3>1. ClaimInv'
      BY <2>2, <1>5 DEF ClaimInv, TypeOK
    <3>2. BlockInv'
      BY <2>2, <1>2 DEF BlockInv, TypeOK
    <3>3. EmittedInv'
      BY <2>2, <1>5 DEF EmittedInv, TypeOK
    <3> QED  BY <3>1, <3>2, <3>3
  <2> QED  BY <2>1, <2>2, <1>5, PriorClaim
<1>6. ASSUME NEW k \in Votes, publishVote(k) PROVE ClaimInv' /\ BlockInv' /\ EmittedInv'
  <2>1. /\ emission[k] # "none" /\ emission[k] # "done"
        /\ emission[k] = "ready" \/ now >= emitAt[k]
    BY <1>6 DEF publishVote, EmitReady
  <2>2. /\ UNCHANGED <<alreadyVoted, votedForSlotBlock, emitAt>>
        /\ emission' = [emission EXCEPT ![k] = "done"]
        /\ emitted' = [emitted EXCEPT ![k] =
                         [n |-> @.n + 1, at |-> now, block |-> votedForSlotBlock[k]]]
    BY <1>6 DEF publishVote
  <2>3. ClaimInv'
    BY <2>1, <2>2 DEF ClaimInv, TypeOK
  <2>4. BlockInv'
    BY <2>2, <1>2 DEF BlockInv, TypeOK
  <2>5. EmittedInv'
    BY <2>1, <2>2 DEF EmittedInv, BlockInv, ClaimInv, TypeOK
  <2> QED  BY <2>3, <2>4, <2>5
<1> QED  BY <1>3, <1>4, <1>5, <1>6, VoteSteps

\* Every step keeps the column gate honest.
LEMMA NextData ==
  ASSUME TypeOK, DataInv, [Next]_vars
  PROVE  DataInv'
<1> USE DEF DataInv, TypeOK, seenVars, drawn
<1>1. CASE publishBlock
  BY <1>1 DEF publishBlock, markColumnsComplete, ownDue
<1>2. CASE onOwnBlockProcessed \/ onReceiveBlock
  BY <1>2 DEF onOwnBlockProcessed, onReceiveBlock, onBlockProcessed
<1>3. CASE \E c \in Columns : onColumnProcessed(c)
  <2>1. PICK c \in Columns : onColumnProcessed(c)
    BY <1>3
  <2>2. role' = role /\ c \in role.custody
    BY <2>1 DEF onColumnProcessed
  <2>3. \/ UNCHANGED <<haveColumn, columnsComplete>>
        \/ /\ haveColumn' = haveColumn \cup {c}
           /\ columnsComplete' => columnsComplete \/ haveColumn \cup {c} = role.custody
    <3>1. haveColumn \cup {c} \in SUBSET role.custody
      BY <2>2 DEF IInv, TypeOK
    <3>2. Complete(haveColumn \cup {c}) <=> haveColumn \cup {c} = role.custody
      BY <3>1, CompleteIsAll DEF IInv
    <3> QED BY <2>1, <3>2, Zenon DEF onColumnProcessed
  <2> QED  BY <2>2, <2>3
<1>4. CASE onPayloadProcessed \/ markCustodyHeld
  BY <1>4 DEF onPayloadProcessed, markCustodyHeld
<1>5. CASE UNCHANGED <<seenVars, role>>
  BY <1>5
<1>6. \/ publishBlock \/ onOwnBlockProcessed \/ onReceiveBlock
      \/ (\E c \in Columns : onColumnProcessed(c))
      \/ onPayloadProcessed \/ markCustodyHeld \/ UNCHANGED <<seenVars, role>>
  BY DEF Next, Program, Network, vars, setupSlot, register, publishConsensusBlock, tryEarlyEmit,
     trySyncEmit, tryEarlyEmitColumn, onBlockDeadline, onBlockDeadlineSync, emitGated,
     emitSyncMessage, publishVote, emitAggregate, emitSyncContribution, burst, emitPTCVote,
     endSlot, dialsUp, Tick
<1> QED  BY <1>1, <1>2, <1>3, <1>4, <1>5, <1>6

\* IInv is an invariant.
LEMMA IInvHolds == Safety => []IInv
<1>1. IInv /\ [Next]_vars => IInv'
  BY NextType, NextVotes, NextData DEF IInv
<1> QED  BY <1>1, InitIInv, PTL DEF Safety

\* The slot's state keeps its types.
THEOREM SlotTypes == Spec => []TypeOK
<1>1. IInv => TypeOK
  BY DEF IInv
<1> QED  BY <1>1, IInvHolds, PTL DEF Spec

\* Whatever the interleaving of the block's, the columns' and the deadline's
\* goroutines, tryEarlyEmit and onBlockDeadline cast each vote at most once.
THEOREM VotesOnce == Spec => []OneVotePerSlot
<1>1. IInv => OneVotePerSlot
  BY DEF IInv, TypeOK, ClaimInv, OneVotePerSlot
<1> QED  BY <1>1, IInvHolds, PTL DEF Spec

\* A vote for the slot's block was earned by emitDecision's rule.
THEOREM BlockVotesJustified == Spec => []BlockVoteJustified
<1>1. ASSUME IInv, NEW k \in Votes, Cast(k), emitted[k].block
      PROVE  /\ Ready(k) /\ Processed(k) + Prep <= BlockDue
             /\ emitted[k].at >= Processed(k) + Prep
  <2>1. emission[k] = "done" /\ alreadyVoted[k]
    BY <1>1 DEF IInv, ClaimInv, Cast
  <2>2. votedForSlotBlock[k] /\ emitted[k].at >= emitAt[k]
    BY <1>1, <2>1 DEF IInv, EmittedInv
  <2> QED  BY <1>1, <2>1, <2>2 DEF IInv, BlockInv, InTime
<1>2. IInv => BlockVoteJustified
  BY <1>1 DEF BlockVoteJustified
<1> QED  BY <1>2, IInvHolds, PTL DEF Spec

\* The gated vote for a block is cast with every custody column received.
THEOREM VotesDataAvailable == Spec => []DataAvailable
<1>1. ASSUME IInv, Cast("gated"), emitted["gated"].block, ~role.own, ~role.epbs
      PROVE  haveColumn = role.custody
  <2>1. emission["gated"] = "done" /\ alreadyVoted["gated"]
    BY <1>1 DEF IInv, ClaimInv, Cast, Votes
  <2>2. votedForSlotBlock["gated"]
    BY <1>1, <2>1 DEF IInv, EmittedInv, Votes
  <2>3. columnsComplete
    BY <1>1, <2>1, <2>2 DEF IInv, BlockInv, InTime, Ready, Votes
  <2> QED  BY <1>1, <2>3 DEF IInv, DataInv
<1>2. IInv => DataAvailable
  BY <1>1 DEF DataAvailable
<1> QED  BY <1>2, IInvHolds, PTL DEF Spec

-----------------------------------------------------------------------------
(* The prior-head vote.  The deadline's claim never looks at emitDecision, *)
(* so that it agrees with the rule needs the clock: with a preparation     *)
(* delay, a block in time was in before the deadline, and by the deadline  *)
(* its goroutine has run.                                                  *)

\* Init establishes what the prior-head vote rests on.
LEMMA InitPInv == Init => PInv
<1> SUFFICES ASSUME Init PROVE PInv
  OBVIOUS
<1>1. UnclaimedInv
  BY DEF Init, UnclaimedInv, InTime, Ready
<1>2. PriorInv
  BY DEF Init, PriorInv
<1>3. ClockInv
  BY DEF Init, ClockInv
<1> QED  BY <1>1, <1>2, <1>3, InitIInv DEF PInv

\* Recorded instants are not in the future, the block is recorded once, and the
\* deadline's goroutine runs after the deadline.
LEMMA NextClock ==
  ASSUME TypeOK, ClockInv, [Next]_vars
  PROVE  ClockInv' /\ now' >= now
<1> USE DEF ClockInv, TypeOK, seenVars, Times
<1>1. CASE publishBlock
  BY <1>1 DEF publishBlock, markColumnsComplete
<1>2. CASE onOwnBlockProcessed \/ onReceiveBlock
  BY <1>2 DEF onOwnBlockProcessed, onReceiveBlock, onBlockProcessed
<1>3. CASE \E c \in Columns : onColumnProcessed(c)
  BY <1>3 DEF onColumnProcessed
<1>4. CASE onPayloadProcessed \/ markCustodyHeld
  BY <1>4 DEF onPayloadProcessed, markCustodyHeld
<1>5. CASE publishConsensusBlock \/ tryEarlyEmit \/ trySyncEmit \/ (\E c \in Columns : tryEarlyEmitColumn(c))
  BY <1>5 DEF publishConsensusBlock, tryEarlyEmit, trySyncEmit, tryEarlyEmitColumn
<1>6. CASE onBlockDeadline
  BY <1>6 DEF onBlockDeadline
<1>7. CASE onBlockDeadlineSync
  BY <1>7 DEF onBlockDeadlineSync, SyncHalfReady
<1>8. CASE setupSlot \/ register \/ dialsUp \/ endSlot
  BY <1>8 DEF setupSlot, register, dialsUp, endSlot
<1>9. CASE (\E k \in Votes : publishVote(k)) \/ emitAggregate \/ emitSyncContribution \/ emitPTCVote
  BY <1>9 DEF publishVote, emitAggregate, emitSyncContribution, burst, emitPTCVote
<1>10. CASE Tick
  BY <1>10, TimesAssumption DEF Tick
<1>11. CASE UNCHANGED vars
  BY <1>11 DEF vars
<1> QED
  BY <1>1, <1>2, <1>3, <1>4, <1>5, <1>6, <1>7, <1>8, <1>9, <1>10, <1>11
  DEF Next, Program, Network, emitGated, emitSyncMessage, Votes

\* A vote becomes ready at the instant of the step that makes it so.
LEMMA ReadyNow ==
  ASSUME TypeOK, ClockInv, [Next]_vars, NEW k \in Votes, ~Ready(k), Ready(k)'
  PROVE  Processed(k)' = now /\ Pending(k)' /\ now' = now /\ UNCHANGED claimVars
<1> USE DEF Ready, Processed, laterOf, Pending, seenVars, ClockInv, TypeOK, Times
<1>1. CASE publishBlock
  BY <1>1 DEF publishBlock, markColumnsComplete
<1>2. CASE onOwnBlockProcessed \/ onReceiveBlock
  <2>1. onBlockProcessed /\ now' = now /\ UNCHANGED claimVars /\ ~blockSeen
    BY <1>2 DEF onOwnBlockProcessed, onReceiveBlock
  <2>2. registered = "yes"
    BY <2>1 DEF onBlockProcessed
  <2>3. /\ blockSeenAt' = now /\ block' = "early"
        /\ columnsCompleteAt' = columnsCompleteAt
    BY <2>1, <2>2 DEF onBlockProcessed
  <2> QED  BY <2>1, <2>3
<1>3. CASE \E c \in Columns : onColumnProcessed(c)
  <2>1. PICK c \in Columns : onColumnProcessed(c)
    BY <1>3
  <2>2. blockSeen' = blockSeen /\ blockSeenAt' = blockSeenAt /\ now' = now /\ UNCHANGED claimVars
    BY <2>1 DEF onColumnProcessed
  <2>3. k = "gated" /\ blockSeen /\ ~columnsComplete /\ columnsComplete'
    BY <2>2
  <2>4. columnsCompleteAt' = now /\ column' = [column EXCEPT ![c] = "early"]
    BY <2>1, <2>3 DEF onColumnProcessed
  <2> QED  BY <2>2, <2>3, <2>4
<1>4. CASE onPayloadProcessed \/ markCustodyHeld
  BY <1>4 DEF onPayloadProcessed, markCustodyHeld
<1>5. CASE UNCHANGED seenVars
  BY <1>5
<1>6. \/ publishBlock \/ onOwnBlockProcessed \/ onReceiveBlock
      \/ (\E c \in Columns : onColumnProcessed(c))
      \/ onPayloadProcessed \/ markCustodyHeld \/ UNCHANGED seenVars
  BY DEF Next, Program, Network, vars, setupSlot, register, publishConsensusBlock, tryEarlyEmit,
     trySyncEmit, tryEarlyEmitColumn, onBlockDeadline, onBlockDeadlineSync, emitGated,
     emitSyncMessage, publishVote, emitAggregate, emitSyncContribution, burst, emitPTCVote,
     endSlot, dialsUp, Tick
<1> QED  BY <1>1, <1>2, <1>3, <1>4, <1>5, <1>6

\* A vote that was ready stays pending until its goroutine tries it, and the
\* clock stands still as long as it is pending.
LEMMA PendingUntilTried ==
  ASSUME TypeOK, [Next]_vars, NEW k \in Votes, Pending(k)
  PROVE  now' = now /\ (Pending(k)' \/ tryEmit(k))
<1> USE DEF Pending, TypeOK, Votes
<1>1. CASE tryEarlyEmit
  BY <1>1 DEF tryEarlyEmit
<1>2. CASE trySyncEmit
  BY <1>2 DEF trySyncEmit
<1>3. CASE \E c \in Columns : tryEarlyEmitColumn(c)
  BY <1>3 DEF tryEarlyEmitColumn
<1>4. CASE onOwnBlockProcessed \/ onReceiveBlock \/ publishBlock \/ publishConsensusBlock
  BY <1>4 DEF onOwnBlockProcessed, onReceiveBlock, publishBlock, publishConsensusBlock, onBlockProcessed
<1>5. CASE \E c \in Columns : onColumnProcessed(c)
  <2>1. PICK c \in Columns : onColumnProcessed(c)
    BY <1>5
  <2>2. /\ now' = now /\ block' = block /\ column[c] = "pending"
        /\ \E x : column' = [column EXCEPT ![c] = x]
    BY <2>1 DEF onColumnProcessed
  <2> QED  BY <2>2
<1>6. CASE Tick
  BY <1>6 DEF Tick, Quiet
<1>7. CASE UNCHANGED <<now, block, column>>
  BY <1>7
<1>8. \/ tryEarlyEmit \/ trySyncEmit \/ (\E c \in Columns : tryEarlyEmitColumn(c))
      \/ onOwnBlockProcessed \/ onReceiveBlock \/ publishBlock \/ publishConsensusBlock
      \/ (\E c \in Columns : onColumnProcessed(c)) \/ Tick \/ UNCHANGED <<now, block, column>>
  BY DEF Next, Program, Network, vars, setupSlot, register, onPayloadProcessed, markCustodyHeld,
     onBlockDeadline, onBlockDeadlineSync, emitGated, emitSyncMessage, publishVote,
     emitAggregate, emitSyncContribution, burst, emitPTCVote, endSlot, dialsUp
<1> QED  BY <1>1, <1>2, <1>3, <1>4, <1>5, <1>6, <1>7, <1>8

\* Every step keeps the prior-head vote justified, if votes need preparation.
LEMMA NextPInv ==
  ASSUME PInv, [Next]_vars, Prep > 0
  PROVE  PInv'
<1> USE DEF PInv
<1>1. IInv'
  BY NextType, NextVotes, NextData DEF IInv
<1>2. ClockInv' /\ now' >= now
  BY NextClock DEF IInv
<1>3. TypeOK /\ TypeOK'
  BY <1>1 DEF IInv
<1>4. \A k \in Votes : Processed(k) \in Nat
  BY <1>3 DEF TypeOK, Processed, laterOf, Times
<1>5. ASSUME NEW k \in Votes, now >= BlockDue, InTime(k)' PROVE InTime(k)
  <2>1. CASE Ready(k)
    BY <1>5, <2>1, SeenStaysSeen, <1>3 DEF InTime
  <2>2. CASE ~Ready(k)
    <3>1. Processed(k)' = now
      BY <1>5, <2>2, <1>3, ReadyNow DEF InTime
    <3> QED  BY <1>5, <3>1, <1>3, TimesAssumption DEF InTime, TypeOK, Times
  <2> QED  BY <2>1, <2>2
<1>6. ASSUME NEW k \in Votes, claimPrior(k), now >= BlockDue, Active(k), ~alreadyVoted[k]
      PROVE  ~InTime(k)
  BY <1>6, <1>3, <1>4, TimesAssumption DEF UnclaimedInv, InTime, TypeOK, Times
<1>7. ASSUME NEW k \in Votes, Active(k)', ~alreadyVoted'[k], InTime(k)'
      PROVE  now' = Processed(k)' /\ Pending(k)'
  <2>1. Active(k) /\ ~alreadyVoted[k]
    <3>1. role' = role
      BY DEF Next, Program, Network, vars, drawn, setupSlot, register, publishBlock,
         publishConsensusBlock, onOwnBlockProcessed, onReceiveBlock, onColumnProcessed,
         onPayloadProcessed, markCustodyHeld, tryEarlyEmit, trySyncEmit, tryEarlyEmitColumn,
         onBlockDeadline, onBlockDeadlineSync, emitGated, emitSyncMessage, publishVote,
         emitAggregate, emitSyncContribution, burst, emitPTCVote, endSlot, dialsUp, Tick
    <3>2. alreadyVoted[k] => alreadyVoted'[k]
      BY VoteSteps, EarlyClaim, PriorClaim, <1>3 DEF claimVars, publishVote, TypeOK
    <3> QED  BY <1>7, <3>1, <3>2 DEF Active
  <2>2. CASE ~Ready(k)
    BY <1>7, <2>2, <1>3, ReadyNow DEF InTime
  <2>3. CASE Ready(k)
    <3>1. InTime(k) /\ Processed(k)' = Processed(k)
      BY <1>7, <2>3, <1>3, SeenStaysSeen DEF InTime
    <3>2. now = Processed(k) /\ Pending(k)
      BY <2>1, <3>1 DEF UnclaimedInv
    <3>3. now' = now /\ (Pending(k)' \/ tryEmit(k))
      BY <3>2, <1>3, PendingUntilTried
    <3>4. ~tryEmit(k)
      BY <1>7, <2>1, <3>1, <1>3, EarlyClaim DEF TypeOK
    <3> QED  BY <3>1, <3>2, <3>3, <3>4
  <2> QED  BY <2>2, <2>3
<1>8. ASSUME NEW k \in Votes, alreadyVoted'[k], ~votedForSlotBlock'[k]
      PROVE  /\ now' >= BlockDue /\ ~InTime(k)' /\ emission'[k] # "armed"
             /\ emission'[k] = "done" => emitted'[k].at >= BlockDue
  <2>1. CASE UNCHANGED <<claimVars, emitted>>
    <3>1. /\ alreadyVoted[k] /\ ~votedForSlotBlock[k]
          /\ emission' = emission /\ emitted' = emitted
      BY <1>8, <2>1 DEF claimVars
    <3>2. now >= BlockDue /\ ~InTime(k) /\ emission[k] # "armed"
      BY <3>1 DEF PriorInv
    <3>3. now' >= BlockDue
      BY <3>2, <1>2, <1>3, TimesAssumption DEF TypeOK, Times
    <3> QED  BY <3>1, <3>2, <3>3, <1>5 DEF PriorInv
  <2>2. ASSUME NEW j \in Votes, tryEmit(j), now' = now, emitted' = emitted
        PROVE  /\ alreadyVoted[k] /\ ~votedForSlotBlock[k] /\ emission'[k] = emission[k]
    BY <1>8, <2>2, <1>3, EarlyClaim DEF claimVars, TypeOK
  <2>3. ASSUME NEW j \in Votes, publishVote(j)
        PROVE  /\ alreadyVoted[k] /\ ~votedForSlotBlock[k] /\ now' = now
               /\ emission'[k] # emission[k] => emission'[k] = "done" /\ emitted'[k].at = now
               /\ emission'[k] = emission[k] => emitted'[k] = emitted[k]
    BY <1>8, <2>3, <1>3 DEF publishVote, EmitReady, TypeOK
  <2>4. ASSUME NEW j \in Votes, claimPrior(j), now' = now, emitted' = emitted, now >= BlockDue
        PROVE  \/ alreadyVoted[k] /\ ~votedForSlotBlock[k] /\ emission'[k] = emission[k]
               \/ ~InTime(k) /\ emission'[k] = "ready"
    BY <1>8, <2>4, <1>3, <1>6, PriorClaim DEF claimVars, TypeOK
  <2>5. alreadyVoted[k] /\ ~votedForSlotBlock[k]
          => /\ now >= BlockDue /\ ~InTime(k) /\ emission[k] # "armed"
             /\ emission[k] = "done" => emitted[k].at >= BlockDue
    BY DEF PriorInv
  <2>6. onBlockDeadline \/ onBlockDeadlineSync => now >= BlockDue
    BY DEF onBlockDeadline, onBlockDeadlineSync, SyncHalfReady, ClockInv
  <2>7. now >= BlockDue /\ ~InTime(k) => now' >= BlockDue /\ ~InTime(k)'
    BY <1>5, <1>2, <1>3, TimesAssumption DEF TypeOK, Times
  <2>8. CASE \E j \in Votes : tryEmit(j) /\ UNCHANGED <<now, emitted>>
    BY <2>8, <2>2, <2>5, <2>7
  <2>9. CASE \E j \in Votes : publishVote(j)
    BY <2>9, <2>3, <2>5, <2>7
  <2>10. CASE /\ onBlockDeadline \/ onBlockDeadlineSync
              /\ \E j \in Votes : claimPrior(j) /\ UNCHANGED <<now, emitted>>
    BY <2>10, <2>4, <2>5, <2>6, <2>7
  <2> QED  BY <2>1, <2>8, <2>9, <2>10, VoteSteps
<1> QED  BY <1>1, <1>2, <1>7, <1>8 DEF UnclaimedInv, PriorInv

\* With a preparation delay, a vote for the prior head was cast only because the
\* block and its columns were not in by the deadline minus that delay, whichever
\* of the receipt and the deadline timer ran first.
THEOREM PriorVotesJustified == Prep > 0 => (Spec => []PriorVoteJustified)
<1> SUFFICES ASSUME Prep > 0 PROVE Spec => []PriorVoteJustified
  OBVIOUS
<1>1. PInv /\ [Next]_vars => PInv'
  BY NextPInv
<1>2. PInv => PriorVoteJustified
  <2> SUFFICES ASSUME PInv, NEW k \in Votes, Cast(k), ~emitted[k].block
               PROVE  emitted[k].at >= BlockDue /\ ~InTime(k)
    BY DEF PriorVoteJustified, InTime
  <2>1. emission[k] = "done" /\ alreadyVoted[k]
    BY DEF PInv, IInv, ClaimInv, Cast
  <2>2. ~votedForSlotBlock[k]
    BY <2>1 DEF PInv, IInv, EmittedInv
  <2> QED  BY <2>1, <2>2 DEF PInv, PriorInv
<1> QED  BY <1>1, <1>2, InitPInv, PTL DEF Spec, Safety

-----------------------------------------------------------------------------
(* The timers.  Every timer fires at its instant or is late by no more     *)
(* than the setup that armed it, so what endSlot finds armed, and what the *)
(* deadline has claimed, follows from where the clock stands.              *)

\* Setup runs at the slot's start, or when the warm-up it parks in is through.
SetupInv ==
  /\ setup = "start" => now = 0
  /\ setup # "done" => fixed["ptc"] = "off" /\ fixed["syncAgg"] = "off"
  /\ setup # "done" <=> registered = "no"
  /\ setup # "done" => (now = 0 \/ role.warmup) /\ now <= MaxWarmup /\ timer = "off"
  /\ registered = "pruned" => now >= SlotDur
  /\ slotEnd # "off" => setup = "done"

\* Only the duties of the role have timers.
FixedInv == \A t \in Fixed : fixed[t] # "off" => t \in role.fixed

\* The timers fire before the slot ends, and what the deadline has passed is
\* claimed.
DeadlineInv ==
  /\ \A t \in Fixed : (fixed[t] = "armed" => now < SlotDur) /\ fixed[t] # "stopped"
  /\ setup = "done" => timer # "off"
  /\ timer = "armed" => now < SlotDur
  /\ timer # "stopped"
  /\ timer \in {"emitting", "sync", "done"} /\ Active("gated") => alreadyVoted["gated"]
  /\ timer = "emitting" => alreadyVoted["gated"]
  /\ timer = "done" /\ Active("sync") => alreadyVoted["sync"]

\* A proposer that was not held up by a warm-up reveals its payload when drawn
\* and holds the columns at the same instant.
RevealInv ==
  role.own /\ role.epbs /\ ~role.warmup =>
    /\ payloadAt < SlotDur
    /\ payload = "pending" => now <= payloadAt
    /\ payload # "pending" => setup = "done"
    /\ payload = "custody" => now <= payloadAt /\ payloadSeen
    /\ payload = "done" => payloadSeen /\ haveColumn = role.custody

\* The one PTC burst saw what it says.
BurstInv == PTCTruthful /\ (ptcVote.n > 0 => fixed["ptc"] = "done")

TInv == TypeOK /\ SetupInv /\ FixedInv /\ RevealInv /\ BurstInv

\* Nothing has fired at first.
LEMMA InitTInv == Init => TInv /\ DeadlineInv
<1> SUFFICES ASSUME Init PROVE TInv /\ DeadlineInv
  OBVIOUS
<1> USE TimesAssumption DEF Init
<1>1. SetupInv /\ FixedInv
  BY DEF SetupInv, FixedInv, Fixed
<1>2. RevealInv
  BY DEF RevealInv, publishDraws
<1>3. BurstInv
  BY DEF BurstInv, PTCTruthful
<1>4. DeadlineInv
  BY DEF DeadlineInv
<1> QED BY <1>1, <1>2, <1>3, <1>4, InitType DEF TInv

\* The duties and the drawn instants never change.
LEMMA DrawnStays == [Next]_vars => UNCHANGED drawn
BY DEF Next, Program, Network, vars, setupSlot, register, publishBlock, publishConsensusBlock,
   onOwnBlockProcessed, onReceiveBlock, onColumnProcessed, onPayloadProcessed, markCustodyHeld,
   tryEarlyEmit, trySyncEmit, tryEarlyEmitColumn, onBlockDeadline, onBlockDeadlineSync,
   emitGated, emitSyncMessage, publishVote, emitAggregate, emitSyncContribution, burst,
   emitPTCVote, endSlot, dialsUp, Tick

\* The steps of the goroutines that no timer knows of.
Receipt ==
  \/ publishBlock \/ publishConsensusBlock \/ onOwnBlockProcessed \/ onReceiveBlock
  \/ tryEarlyEmit \/ trySyncEmit \/ emitGated \/ emitSyncMessage \/ dialsUp
  \/ \E c \in Columns : tryEarlyEmitColumn(c) \/ onColumnProcessed(c)

\* They leave the timers, the setup, the payload and the PTC vote alone, and a
\* column that was there stays.
LEMMA ReceiptFrame ==
  ASSUME TypeOK, Receipt
  PROVE  /\ UNCHANGED <<now, setup, registered, payloadSeen, payload, timer, fixed, slotEnd, ptcVote>>
         /\ haveColumn \subseteq haveColumn'
         /\ blockSeen => blockSeen'
<1> USE DEF seenVars
<1>1. CASE publishBlock \/ publishConsensusBlock
  BY <1>1 DEF publishBlock, markColumnsComplete, publishConsensusBlock
<1>2. CASE onOwnBlockProcessed \/ onReceiveBlock
  BY <1>2 DEF onOwnBlockProcessed, onReceiveBlock, onBlockProcessed
<1>3. CASE tryEarlyEmit \/ trySyncEmit \/ emitGated \/ emitSyncMessage \/ dialsUp
  BY <1>3 DEF tryEarlyEmit, trySyncEmit, emitGated, emitSyncMessage, publishVote, dialsUp
<1>4. ASSUME NEW c \in Columns, tryEarlyEmitColumn(c)
      PROVE  /\ UNCHANGED <<now, setup, registered, payloadSeen, payload, timer, fixed, slotEnd, ptcVote>>
             /\ haveColumn \subseteq haveColumn' /\ (blockSeen => blockSeen')
  BY <1>4 DEF tryEarlyEmitColumn
<1>5. ASSUME NEW c \in Columns, onColumnProcessed(c)
      PROVE  /\ UNCHANGED <<now, setup, registered, payloadSeen, payload, timer, fixed, slotEnd, ptcVote>>
             /\ haveColumn \subseteq haveColumn' /\ (blockSeen => blockSeen')
  BY <1>5 DEF onColumnProcessed
<1> QED BY <1>1, <1>2, <1>3, <1>4, <1>5 DEF Receipt

\* Every step, as the timers see it.
LEMMA TimerSteps ==
  ASSUME [Next]_vars
  PROVE  \/ Receipt \/ setupSlot \/ register \/ onPayloadProcessed \/ markCustodyHeld
         \/ onBlockDeadline \/ onBlockDeadlineSync
         \/ emitAggregate \/ emitSyncContribution \/ emitPTCVote
         \/ endSlot \/ Tick \/ UNCHANGED vars
BY Zenon DEF Next, Program, Network, Receipt

\* Every step keeps the setup and the fixed timers to their instants.
LEMMA NextSetup ==
  ASSUME TInv, [Next]_vars
  PROVE  SetupInv' /\ FixedInv'
<1> USE TimesAssumption DEF TInv, SetupInv, FixedInv, TypeOK, Times, Fixed
<1>0. role' = role
  BY DrawnStays DEF drawn
<1>1. CASE Receipt
  BY <1>0, <1>1, ReceiptFrame
<1>2. CASE setupSlot
  BY <1>0, <1>2 DEF setupSlot
<1>3. CASE register
  BY <1>0, <1>3 DEF register
<1>4. CASE onPayloadProcessed \/ markCustodyHeld
  BY <1>0, <1>4 DEF onPayloadProcessed, markCustodyHeld
<1>5. CASE onBlockDeadline
  BY <1>0, <1>5 DEF onBlockDeadline
<1>6. CASE onBlockDeadlineSync
  BY <1>0, <1>6 DEF onBlockDeadlineSync, SyncHalfReady
<1>7. CASE emitAggregate \/ emitSyncContribution \/ emitPTCVote
  BY <1>0, <1>7 DEF emitAggregate, emitSyncContribution, burst, emitPTCVote
<1>8. CASE endSlot
  BY <1>0, <1>8 DEF endSlot
<1>9. CASE Tick
  BY <1>0, <1>9 DEF Tick, Quiet, FixedDue
<1>10. CASE UNCHANGED vars
  BY <1>0, <1>10 DEF vars
<1> QED
  BY <1>1, <1>2, <1>3, <1>4, <1>5, <1>6, <1>7, <1>8, <1>9, <1>10, TimerSteps

\* Every step keeps the proposer's reveal to its instant.
LEMMA NextReveal ==
  ASSUME TInv, [Next]_vars
  PROVE  RevealInv'
<1> USE TimesAssumption DEF TInv, RevealInv, TypeOK, Times
<1>0. role' = role /\ payloadAt' = payloadAt /\ haveColumn' \subseteq role.custody
  BY DrawnStays, NextType DEF drawn
<1>1. CASE Receipt
  BY <1>0, <1>1, ReceiptFrame
<1>2. CASE setupSlot \/ register
  BY <1>0, <1>2 DEF setupSlot, register, seenVars
<1>3. CASE onPayloadProcessed
  <2> SUFFICES ASSUME role.own, role.epbs, ~role.warmup
               PROVE  RevealInv'
    BY <1>0
  <2>1. setup = "done" /\ payload = "pending"
    BY <1>3 DEF onPayloadProcessed, ownDue
  <2>2. registered = "yes"
    BY <2>1 DEF SetupInv
  <2>3. payloadSeen'
    BY <1>3, <2>2, Zenon DEF onPayloadProcessed
  <2>4. payload' = "custody" /\ now' = now /\ setup' = setup
    BY <1>3 DEF onPayloadProcessed
  <2> QED BY <1>0, <2>1, <2>3, <2>4
<1>4. CASE markCustodyHeld
  <2> SUFFICES ASSUME role.own, role.epbs, ~role.warmup
               PROVE  RevealInv'
    BY <1>0
  <2>1. payload = "custody" /\ setup = "done" /\ now <= payloadAt
    BY <1>4 DEF markCustodyHeld
  <2>2. registered = "yes"
    BY <2>1 DEF SetupInv
  <2>3. haveColumn' = role.custody
    BY <1>0, <1>4, <2>2, Zenon DEF markCustodyHeld
  <2>4. payload' = "done" /\ UNCHANGED <<payloadSeen, setup>>
    BY <1>4 DEF markCustodyHeld
  <2> QED BY <1>0, <2>1, <2>3, <2>4
<1>5. CASE onBlockDeadline \/ onBlockDeadlineSync
  BY <1>0, <1>5 DEF onBlockDeadline, onBlockDeadlineSync, seenVars
<1>6. CASE emitAggregate \/ emitSyncContribution \/ emitPTCVote
  BY <1>0, <1>6 DEF emitAggregate, emitSyncContribution, burst, emitPTCVote, seenVars
<1>7. CASE endSlot
  BY <1>0, <1>7 DEF endSlot, seenVars
<1>8. CASE Tick
  BY <1>0, <1>8 DEF Tick, Quiet, ownDue, seenVars
<1>9. CASE UNCHANGED vars
  BY <1>9 DEF vars, drawn, seenVars
<1> QED BY <1>1, <1>2, <1>3, <1>4, <1>5, <1>6, <1>7, <1>8, <1>9, TimerSteps

\* Every step keeps the PTC burst truthful.
LEMMA NextBurst ==
  ASSUME TInv, [Next]_vars
  PROVE  BurstInv'
<1> USE TimesAssumption DEF TInv, BurstInv, PTCTruthful, TypeOK, Times
<1>0. role' = role /\ payloadAt' = payloadAt /\ haveColumn' \subseteq role.custody
  BY DrawnStays, NextType DEF drawn
<1>1. CASE Receipt
  BY <1>0, <1>1, ReceiptFrame
<1>2. CASE setupSlot
  BY <1>0, <1>2 DEF setupSlot, SetupInv, Fixed, seenVars
<1>3. CASE register
  <2>1. ptcVote.n = 0
    BY <1>3 DEF register, SetupInv
  <2> QED BY <1>0, <1>3, <2>1 DEF register, seenVars
<1>4. CASE onPayloadProcessed \/ markCustodyHeld
  BY <1>0, <1>4 DEF onPayloadProcessed, markCustodyHeld
<1>5. CASE onBlockDeadline \/ onBlockDeadlineSync
  BY <1>0, <1>5 DEF onBlockDeadline, onBlockDeadlineSync, seenVars
<1>6. CASE emitAggregate \/ emitSyncContribution
  BY <1>0, <1>6 DEF emitAggregate, emitSyncContribution, burst, seenVars, Fixed
<1>7. CASE emitPTCVote
  <2>1. role.epbs
    BY <1>7, RolesAssumption DEF emitPTCVote, FixedInv, Fixed, AllRoles
  <2>2. ptcVote.n = 0
    BY <1>7 DEF emitPTCVote
  <2>3. role.own /\ ~role.warmup /\ payloadAt < PTCDue => payloadSeen /\ haveColumn = role.custody
    BY <1>7, <2>1 DEF emitPTCVote, RevealInv
  <2>4. CASE ~blockSeen
    BY <1>0, <1>7, <2>2, <2>4 DEF emitPTCVote
  <2>5. CASE blockSeen
    <3>1. ptcVote' = [n |-> 1, present |-> payloadSeen /\ haveColumn = role.custody]
      BY <1>7, <2>2, <2>5, CompleteIsAll DEF emitPTCVote
    <3>2. ptcVote'.n = 1 /\ ptcVote'.present = (payloadSeen /\ haveColumn = role.custody)
      BY <3>1
    <3>3. fixed'["ptc"] = "done" /\ UNCHANGED seenVars
      BY <1>7 DEF emitPTCVote, Fixed
    <3> QED BY <1>0, <2>3, <2>5, <3>2, <3>3 DEF seenVars
  <2> QED BY <2>4, <2>5
<1>8. CASE endSlot
  BY <1>0, <1>8 DEF endSlot, seenVars, Fixed
<1>9. CASE Tick
  BY <1>0, <1>9 DEF Tick, seenVars
<1>10. CASE UNCHANGED vars
  BY <1>10 DEF vars, drawn, seenVars
<1> QED
  BY <1>1, <1>2, <1>3, <1>4, <1>5, <1>6, <1>7, <1>8, <1>9, <1>10, TimerSteps

\* TInv is an invariant.
LEMMA TInvHolds == Safety => []TInv
<1>1. TInv /\ [Next]_vars => TInv'
  BY NextType, NextSetup, NextReveal, NextBurst DEF TInv
<1> QED BY <1>1, InitTInv, PTL DEF Safety

\* emitPTCVote attests to what the node holds, and markCustodyHeld comes in time
\* for a proposer's own members.
THEOREM PTCVotesTruthful == Spec => []PTCTruthful
<1>1. TInv => PTCTruthful
  BY DEF TInv, BurstInv
<1> QED BY <1>1, TInvHolds, PTL DEF Spec

-----------------------------------------------------------------------------
\* What is claimed stays claimed.
LEMMA ClaimsStay ==
  ASSUME TypeOK, [Next]_vars, NEW k \in Votes, alreadyVoted[k]
  PROVE  alreadyVoted'[k]
<1> USE DEF TypeOK
<1>1. CASE UNCHANGED <<claimVars, emitted>>
  BY <1>1 DEF claimVars
<1>2. ASSUME NEW j \in Votes, tryEmit(j)
      PROVE  alreadyVoted'[k]
  BY <1>2, EarlyClaim DEF claimVars
<1>3. ASSUME NEW j \in Votes, claimPrior(j)
      PROVE  alreadyVoted'[k]
  BY <1>3, PriorClaim DEF claimVars
<1>4. ASSUME NEW j \in Votes, publishVote(j)
      PROVE  alreadyVoted'[k]
  BY <1>4 DEF publishVote
<1> QED BY <1>1, <1>2, <1>3, <1>4, VoteSteps

\* Every step keeps the deadline to its instant, if the warm-up that setup may
\* park in is through before the slot ends.
LEMMA NextDeadline ==
  ASSUME TInv, DeadlineInv, [Next]_vars, MaxWarmup < SlotDur
  PROVE  DeadlineInv'
<1> USE TimesAssumption DEF TInv, DeadlineInv, TypeOK, Times
<1>0. /\ role' = role
      /\ \A k \in Votes : Active(k)' = Active(k) /\ (alreadyVoted[k] => alreadyVoted'[k])
      /\ "gated" \in Votes /\ "sync" \in Votes
  BY DrawnStays, ClaimsStay DEF drawn, Active, Votes
<1>1. CASE Receipt
  BY <1>0, <1>1, ReceiptFrame
<1>2. CASE setupSlot
  BY <1>0, <1>2 DEF setupSlot, SetupInv, Fixed
<1>3. CASE register
  BY <1>0, <1>3 DEF register, SetupInv, Fixed
<1>4. CASE onPayloadProcessed \/ markCustodyHeld
  BY <1>0, <1>4 DEF onPayloadProcessed, markCustodyHeld
<1>5. CASE onBlockDeadline
  <2>1. Active("gated") => alreadyVoted'["gated"]
    BY <1>0, <1>5, PriorClaim DEF onBlockDeadline, claimVars
  <2>2. timer' = "emitting" => Active("gated")
    BY <1>5 DEF onBlockDeadline, VoteParent
  <2> QED BY <1>0, <1>5, <2>1, <2>2 DEF onBlockDeadline
<1>6. CASE onBlockDeadlineSync
  <2>1. Active("sync") => alreadyVoted'["sync"]
    BY <1>0, <1>6, PriorClaim DEF onBlockDeadlineSync, claimVars
  <2> QED BY <1>0, <1>6, <2>1 DEF onBlockDeadlineSync, SyncHalfReady
<1>7. CASE emitAggregate \/ emitSyncContribution \/ emitPTCVote
  BY <1>0, <1>7 DEF emitAggregate, emitSyncContribution, burst, emitPTCVote
<1>8. CASE endSlot
  BY <1>0, <1>8 DEF endSlot
<1>9. CASE Tick
  BY <1>0, <1>9 DEF Tick, Quiet, FixedDue, Fixed
<1>10. CASE UNCHANGED vars
  BY <1>0, <1>10 DEF vars, claimVars
<1> QED
  BY <1>1, <1>2, <1>3, <1>4, <1>5, <1>6, <1>7, <1>8, <1>9, <1>10, TimerSteps

\* Together with what the votes keep.
DInv == IInv /\ TInv /\ DeadlineInv

\* DInv is an invariant, if the warm-up is through before the slot ends.
LEMMA DInvHolds == MaxWarmup < SlotDur => (Safety => []DInv)
<1> SUFFICES ASSUME MaxWarmup < SlotDur PROVE Safety => []DInv
  OBVIOUS
<1>1. DeadlineInv /\ TInv /\ [Next]_vars => DeadlineInv'
  BY NextDeadline
<1>2. Init => DeadlineInv
  BY InitTInv
<1>3. IInv /\ TInv /\ DeadlineInv <=> DInv
  BY DEF DInv
<1> QED BY <1>1, <1>2, <1>3, IInvHolds, TInvHolds, PTL DEF Safety

\* If the warm-up is through before the slot ends, endSlot stops no timer that
\* had still to fire: neither the vote's deadline nor a fixed-time burst.
THEOREM EndSlotStopsNothing == MaxWarmup < SlotDur => (Spec => []EndSlotCutsNothing)
<1> SUFFICES ASSUME MaxWarmup < SlotDur PROVE Spec => []EndSlotCutsNothing
  OBVIOUS
<1>1. DInv => EndSlotCutsNothing
  BY DEF DInv, DeadlineInv, EndSlotCutsNothing
<1> QED BY <1>1, DInvHolds, PTL DEF Spec

\* If the warm-up is through before the slot ends, the clock does not leave the
\* deadline before every vote the node owes has been cast: the early path or
\* onBlockDeadline has claimed it, and nothing holds up its emission.
THEOREM VotesCastByDeadline == MaxWarmup < SlotDur => (Spec => []VotedByDeadline)
<1> SUFFICES ASSUME MaxWarmup < SlotDur PROVE Spec => []VotedByDeadline
  OBVIOUS
<1>1. DInv => VotedByDeadline
  <2> SUFFICES ASSUME DInv, Quiet, now >= BlockDue, setup = "done", role.dials => dialReady,
                      NEW k \in Votes, Active(k)
               PROVE  Cast(k)
    BY DEF VotedByDeadline
  <2> USE TimesAssumption DEF DInv, TInv, TypeOK, Times
  <2>1. \A j \in Votes : emission[j] = "none" \/ emission[j] = "done"
    BY DEF Quiet, EmitReady
  <2>2. \A j \in Votes : alreadyVoted[j] => emission[j] = "done"
    BY <2>1 DEF IInv, ClaimInv
  <2>3. timer = "done"
    <3>1. timer \in {"emitting", "done"}
      BY DEF Quiet, SyncHalfReady, DeadlineInv
    <3>2. timer # "emitting"
      BY <2>2 DEF Quiet, SyncHalfReady, DeadlineInv, Votes
    <3> QED BY <3>1, <3>2
  <2>4. alreadyVoted[k]
    BY <2>3 DEF DeadlineInv, Votes
  <2> QED BY <2>2, <2>4 DEF IInv, ClaimInv, Cast
<1> QED BY <1>1, DInvHolds, PTL DEF Spec
=============================================================================
