--------------------------- MODULE MCFileTransfer ---------------------------
(* File transfers between one daemon and one remote path.                  *)
EXTENDS FileTransfer

TransferPlan(pushes, pulls, breaks, losses, writes, maxAge) ==
  [pushes |-> pushes, pulls |-> pulls, breaks |-> breaks, losses |-> losses,
   writes |-> writes, maxAge |-> maxAge]

ChunksOf == [c \in {"P1", "P2", "V1", "V2"} |-> IF c = "V2" THEN 1 ELSE IF c = "P2" THEN 0 ELSE 2]

CheckedTransfers == {TransferPlan({"P1", "P2"}, {}, 1, 1, 0, FALSE),
          TransferPlan({"P1"}, {}, 1, 1, 1, FALSE),
          TransferPlan({"P1"}, {"D1"}, 1, 0, 1, FALSE),
          TransferPlan({}, {"D1", "D2"}, 0, 0, 1, TRUE),
          TransferPlan({}, {"D1"}, 1, 1, 2, TRUE)}
=============================================================================
