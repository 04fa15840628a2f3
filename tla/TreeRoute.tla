------------------------------ MODULE TreeRoute ------------------------------
(***************************************************************************)
(* The walk of BlockChain::tree_route(from, to), one loop iteration per    *)
(* step, against the definitions of the route that BlockChain.tla uses.    *)
(* block_details answers for the blocks in `known` only, and says of those *)
(* in `finalized` that they are.                                           *)
(***************************************************************************)
EXTENDS BlockTree, SequencesExt

VARIABLES
    from, to,                   \* the arguments
    known, finalized,           \* what block_details answers
    currentFrom, currentTo,
    fromBranch, toBranch,       \* the blocks passed, in the order pushed
    isFromRouteFinalized,
    result                      \* "walking", "None" or "Some"

args == <<from, to, known, finalized>>

vars == <<args, currentFrom, currentTo, fromBranch, toBranch, isFromRouteFinalized, result>>

Init ==
    /\ from \in Blocks /\ to \in Blocks
    /\ known \in SUBSET Blocks /\ finalized \in SUBSET known
    /\ currentFrom = from /\ currentTo = to
    /\ fromBranch = << >> /\ toBranch = << >>
    /\ isFromRouteFinalized = FALSE
    /\ result = IF {from, to} \subseteq known THEN "walking" ELSE "None"

(***************************************************************************)
(* One side moves to its parent.  The question mark after block_details    *)
(* returns None when the parent is not known.                              *)
(***************************************************************************)
StepFromChecksFirst ==
    /\ fromBranch' = Append(fromBranch, currentFrom)
    /\ currentFrom' = Parent[currentFrom]
    /\ isFromRouteFinalized' = (isFromRouteFinalized \/ currentFrom \in finalized)

StepFrom ==
    /\ fromBranch' = Append(fromBranch, currentFrom)
    /\ currentFrom' = Parent[currentFrom]
    /\ isFromRouteFinalized' = (isFromRouteFinalized \/ Parent[currentFrom] \in finalized)

StepTo ==
    /\ toBranch' = Append(toBranch, currentTo)
    /\ currentTo' = Parent[currentTo]

LowerFrom ==
    /\ result = "walking"
    /\ Number[currentFrom] > Number[currentTo]
    /\ IF Parent[currentFrom] \in known
       THEN StepFrom /\ UNCHANGED result
       ELSE result' = "None" /\ UNCHANGED <<fromBranch, currentFrom, isFromRouteFinalized>>
    /\ UNCHANGED <<args, toBranch, currentTo>>

LowerToUnchecked ==
    /\ result = "walking"
    /\ Number[currentTo] > Number[currentFrom]
    /\ StepTo
    /\ UNCHANGED <<args, fromBranch, currentFrom, isFromRouteFinalized, result>>

LowerTo ==
    /\ result = "walking"
    /\ Number[currentTo] > Number[currentFrom]
    /\ IF Parent[currentTo] \in known
       THEN StepTo /\ UNCHANGED result
       ELSE result' = "None" /\ UNCHANGED <<toBranch, currentTo>>
    /\ UNCHANGED <<args, fromBranch, currentFrom, isFromRouteFinalized>>

LowerBoth ==
    /\ result = "walking"
    /\ Number[currentTo] = Number[currentFrom]
    /\ currentFrom # currentTo
    /\ IF {Parent[currentFrom], Parent[currentTo]} \subseteq known
       THEN StepFrom /\ StepTo /\ UNCHANGED result
       ELSE /\ result' = "None"
            /\ UNCHANGED <<fromBranch, currentFrom, isFromRouteFinalized, toBranch, currentTo>>
    /\ UNCHANGED args

FinishAboveGenesis ==
    /\ result = "walking"
    /\ currentFrom = currentTo /\ currentFrom # Genesis
    /\ result' = "Some"
    /\ UNCHANGED <<args, currentFrom, currentTo, fromBranch, toBranch, isFromRouteFinalized>>

Finish ==
    /\ result = "walking"
    /\ currentFrom = currentTo
    /\ result' = "Some"
    /\ UNCHANGED <<args, currentFrom, currentTo, fromBranch, toBranch, isFromRouteFinalized>>

Next == LowerFrom \/ LowerTo \/ LowerBoth \/ Finish

Spec == Init /\ [][Next]_vars /\ WF_vars(Next)

-----------------------------------------------------------------------------
(***************************************************************************)
(* The returned TreeRoute.                                                 *)
(***************************************************************************)
RouteBlocks == fromBranch \o Reverse(toBranch)

RouteIndex == Len(fromBranch)

(***************************************************************************)
(* The walk finds the route of the documentation, { blocks: [B4, B3, A3,   *)
(* A4], ancestor: A2, index: 2 }: down from `from` to the best common      *)
(* ancestor, which it leaves out, and up to `to`.  BlockChain.tla relies   *)
(* on the two halves and on the flag.                                      *)
(***************************************************************************)
RouteIsRight ==
    result = "Some" =>
       /\ ToSet(SubSeq(RouteBlocks, 1, RouteIndex)) = Retracted(from, to)
       /\ ToSet(SubSeq(RouteBlocks, RouteIndex + 1, Len(RouteBlocks))) = Enacted(from, to)
       /\ IsInjective(RouteBlocks)
       /\ \A i \in 1..(RouteIndex - 1) : RouteBlocks[i + 1] = Parent[RouteBlocks[i]]
       /\ \A i \in (RouteIndex + 1)..(Len(RouteBlocks) - 1) :
             RouteBlocks[i] = Parent[RouteBlocks[i + 1]]
       /\ currentFrom \in Ancestry[from] \cap Ancestry[to]
       /\ \A x \in Ancestry[from] \cap Ancestry[to] : Number[x] <= Number[currentFrom]
       /\ isFromRouteFinalized = IsFromRouteFinalized(from, to, finalized)

(***************************************************************************)
(* "If the tree route verges into pruned or unknown blocks, `None` is      *)
(* returned", and only then.                                               *)
(***************************************************************************)
NoneMeansUnknown ==
    LET common == Ancestry[from] \cap Ancestry[to]
        best == CHOOSE x \in common : \A y \in common : Number[y] <= Number[x]
        route == {from, to, best} \cup Retracted(from, to) \cup Enacted(from, to)
    IN  /\ result = "Some" => route \subseteq known
        /\ result = "None" => ~(route \subseteq known)

(***************************************************************************)
(* The walk ends: the cursors meet in genesis at the latest.               *)
(***************************************************************************)
Terminates == <>(result # "walking")

(***************************************************************************)
(* TreeRoute::is_from_route_finalized is documented as "Whether it has     *)
(* finalized blocks from `from` (inclusive) to `ancestor` (exclusive)."    *)
(***************************************************************************)
FlagAsDocumented ==
    result = "Some" =>
       isFromRouteFinalized = (\E x \in Retracted(from, to) : x \in finalized)
=============================================================================
