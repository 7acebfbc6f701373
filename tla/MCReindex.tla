----------------------------- MODULE MCReindex -----------------------------
(* Seeded items, and one commit that brings another item and a tag.        *)
EXTENDS Reindex

BringsItemAndTag == [c \in Ingesters |-> {"i3", "t1"}]
=============================================================================
