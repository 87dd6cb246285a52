----------------------------- MODULE MCCatalog ------------------------------
(* The procedures of the catalog package for TLC.  The find_ procedures and *)
(* the list procedures share nothing but the catalog they name, so that a   *)
(* behaviour is one of either family, chosen at its start.                  *)
(*                                                                          *)
(* Cursors are numbers, opened in order, and the first one is of a fixed    *)
(* procedure, which stands for the symmetry that liveness forbids.          *)
EXTENDS CatalogCursors, CatalogLists

VARIABLE family

BothLists == {Catalogs, Schemas}

InOrder ==
    \A c, d \in Listing : c < d /\ listing[d].state # "new" => listing[c].state # "new"

FirstIsFixed == cursor[1].of \in {None, CHOOSE p \in Procedure : TRUE}

MCInit == Init /\ ListInit /\ family \in {"find", "list"}

MCNext ==
    \/ family = "find" /\ Next /\ FirstIsFixed' /\ UNCHANGED listVars /\ UNCHANGED family
    \/ family = "list" /\ ListNext /\ InOrder' /\ UNCHANGED vars /\ UNCHANGED family

MCSpec ==
    /\ MCInit /\ [][MCNext]_<<vars, listVars, family>>
    /\ \A c \in Cursor : WF_vars(Fetch(c))

=============================================================================
