----------------------------- MODULE MCWorkflow -----------------------------
(* Small instances of WorkflowService for TLC.                              *)
EXTENDS WorkflowService, TLC

CONSTANTS p1, p2, look, edit, residue

OneCheck == <<residue>>

\* A transactional edit: the source is copied, the edit must carry its diff.
EditOrder == [kind |-> "edit", valid |-> TRUE, unfit |-> "none", copies |-> TRUE,
              explicit |-> {edit}, render |-> FALSE]
\* A form fill: the tool writes the output itself, its verifiers must say ok.
FillOrder == [EditOrder EXCEPT !.copies = FALSE, !.explicit = {residue}]
ReadOrder == [EditOrder EXCEPT !.kind = "read", !.explicit = {}]
Unfit(where) == [FillOrder EXCEPT !.unfit = where]
AbstainOrder == [ReadOrder EXCEPT !.kind = "abstain"]
InvalidOrder == [FillOrder EXCEPT !.valid = FALSE]
RenderOrder == [FillOrder EXCEPT !.render = TRUE]

AllOrders == {EditOrder, FillOrder, ReadOrder, AbstainOrder, InvalidOrder,
              Unfit("recon"), Unfit("plan"), RenderOrder}
OnlyFill == {FillOrder}

Symmetry == Permutations(Procs)
=============================================================================
