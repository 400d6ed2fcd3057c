--------------------------- MODULE MCClosingRoom ---------------------------
(* One deal whose documents are signed, and a partner who may sell more than  *)
(* any bid covers.                                                            *)
EXTENDS MCDeal, ClosingRoom

RoomDocs == CloseDocs
RoomCapacities == {3}
RoomPcts == {9}
RoomPositions == {5}
RoomSplits == {0, 2, 3, 5}
RoomIds == {1}
RoomMints == {MintOf(unit, 3)}
=============================================================================
