---------------------------- MODULE CatalogLists ----------------------------
(***************************************************************************)
(* list_catalogs and list_schemas of the catalog package (src/src/         *)
(* ctlg.cpp): the names are a std::list of the procedure's instance        *)
(* (result_set), which an open replaces, and a fetch reads through an      *)
(* iterator of the instance (result_set_it) that the open points at the    *)
(* first name.                                                             *)
(*                                                                         *)
(* list_schemas moves the iterator after every name.  list_catalogs does   *)
(* not.  A catalog that was released is used by an open all the same; what *)
(* follows that use of freed memory is left out, the model stops there.    *)
(*                                                                         *)
(* Names are other than in CatalogCursors, so that CatalogProofs can       *)
(* extend both.                                                            *)
(***************************************************************************)
EXTENDS Naturals, Sequences

CONSTANTS
    Listing,    \* cursors: ResultSet objects, each is opened once
    ListProc,   \* which of the two procedures are used
    NoList,     \* no procedure, no cursor
    MaxName,    \* the most names a call finds
    MaxFetch    \* bound: names one cursor returns

Catalogs == "list_catalogs"
Schemas == "list_schemas"

ASSUME ListsAssumption ==
    /\ MaxName \in Nat /\ MaxFetch \in Nat
    /\ ListProc \subseteq {Catalogs, Schemas} /\ NoList \notin ListProc
    /\ NoList \notin Listing

VARIABLES
    listing,   \* each cursor: its state, its procedure, the names it found and returned
    names,     \* the list of each procedure's instance: whose call filled it, and how many
    names_it,  \* the iterator of each instance: the names before it
    catalog    \* the catalog the calls name; "used" once it was used after its release

listVars == <<listing, names, names_it, catalog>>

Reading == [state : {"new", "open", "ended", "closed", "refused"}, of : ListProc \cup {NoList},
            rows : 0 .. MaxName, got : Seq(Listing \X (1 .. MaxName))]

ListTypeOK ==
    /\ listing \in [Listing -> Reading]
    /\ names \in [ListProc -> [owner : Listing \cup {NoList}, rows : 0 .. MaxName]]
    /\ names_it \in [ListProc -> 0 .. MaxName]
    /\ catalog \in {"alive", "released", "used"}

AtEnd(p) == names_it[p] = names[p].rows

\* The name the iterator of p is on.
Name(p) == <<names[p].owner, names_it[p] + 1>>

ListInit ==
    /\ listing = [c \in Listing |-> [state |-> "new", of |-> NoList, rows |-> 0, got |-> <<>>]]
    /\ names = [p \in ListProc |-> [owner |-> NoList, rows |-> 0]]
    /\ names_it = [p \in ListProc |-> 0]
    /\ catalog = "alive"

Sane == catalog # "used"

-----------------------------------------------------------------------------

\* The list is filled and the iterator set to its first name.
OpenList(c, p) ==
    /\ catalog = "alive"
    /\ listing[c].state = "new"
    /\ \E n \in 0 .. MaxName :
        /\ listing' = [listing EXCEPT ![c].state = "open", ![c].of = p, ![c].rows = n]
        /\ names' = [names EXCEPT ![p] = [owner |-> c, rows |-> n]]
    /\ names_it' = [names_it EXCEPT ![p] = 0]
    /\ UNCHANGED catalog

\* The catalog is only checked for NULL: one that was released is asked.
OpenListReleased(c, p) ==
    /\ catalog = "released"
    /\ listing[c].state = "new"
    /\ listing' = [listing EXCEPT ![c].state = "refused", ![c].of = p]
    /\ catalog' = "used"
    /\ UNCHANGED <<names, names_it>>

\* The catalog is NULL, or ODBC reports an error.
FailOpenList(c, p) ==
    /\ Sane
    /\ listing[c].state = "new"
    /\ listing' = [listing EXCEPT ![c].state = "refused", ![c].of = p]
    /\ UNCHANGED <<names, names_it, catalog>>

\* Mutant of FetchCatalog: the iterator moves on.
FetchCatalogMoves(c) ==
    /\ Sane
    /\ listing[c].state = "open" /\ listing[c].of = Catalogs
    /\ Len(listing[c].got) < MaxFetch
    /\ ~AtEnd(Catalogs)
    /\ listing' = [listing EXCEPT ![c].got = Append(@, Name(Catalogs))]
    /\ names_it' = [names_it EXCEPT ![Catalogs] = @ + 1]
    /\ UNCHANGED <<names, catalog>>

\* A fetch of list_catalogs that returns a name.
FetchCatalog(c) ==
    /\ Sane
    /\ listing[c].state = "open" /\ listing[c].of = Catalogs
    /\ Len(listing[c].got) < MaxFetch
    /\ ~AtEnd(Catalogs)
    /\ listing' = [listing EXCEPT ![c].got = Append(@, Name(Catalogs))]
    /\ UNCHANGED <<names, names_it, catalog>>

\* Mutant of FetchSchema: the iterator does not move.
FetchSchemaStays(c) ==
    /\ Sane
    /\ listing[c].state = "open" /\ listing[c].of = Schemas
    /\ Len(listing[c].got) < MaxFetch
    /\ ~AtEnd(Schemas)
    /\ listing' = [listing EXCEPT ![c].got = Append(@, Name(Schemas))]
    /\ UNCHANGED <<names, names_it, catalog>>

\* A fetch of list_schemas that returns a name.
FetchSchema(c) ==
    /\ Sane
    /\ listing[c].state = "open" /\ listing[c].of = Schemas
    /\ ~AtEnd(Schemas)
    /\ listing' = [listing EXCEPT ![c].got = Append(@, Name(Schemas))]
    /\ names_it' = [names_it EXCEPT ![Schemas] = @ + 1]
    /\ UNCHANGED <<names, catalog>>

\* The fetch that finds no more names empties the list; the iterator is its end.
EndList(c) ==
    /\ Sane
    /\ listing[c].state = "open" /\ AtEnd(listing[c].of)
    /\ listing' = [listing EXCEPT ![c].state = "ended"]
    /\ names' = [names EXCEPT ![listing[c].of].rows = 0]
    /\ names_it' = [names_it EXCEPT ![listing[c].of] = 0]
    /\ UNCHANGED catalog

\* Firebird drops the ResultSet object of a cursor that is not read to its end.
CloseList(c) ==
    /\ Sane
    /\ listing[c].state = "open"
    /\ listing' = [listing EXCEPT ![c].state = "closed"]
    /\ UNCHANGED <<names, names_it, catalog>>

\* release_ of the catalog; the lists are copies and stay.
ReleaseListed ==
    /\ catalog = "alive"
    /\ catalog' = "released"
    /\ UNCHANGED <<listing, names, names_it>>

FetchName(c) == FetchCatalog(c) \/ FetchSchema(c) \/ EndList(c)

ListNext ==
    \/ \E c \in Listing, p \in ListProc :
          OpenList(c, p) \/ OpenListReleased(c, p) \/ FailOpenList(c, p)
    \/ \E c \in Listing : FetchName(c) \/ CloseList(c)
    \/ ReleaseListed

ListSpec == ListInit /\ [][ListNext]_listVars

-----------------------------------------------------------------------------
(* Properties.                                                              *)

\* However cursors of list_schemas overlap, each name found is returned at most once
\* and no cursor returns names for ever.
SchemasOnce ==
    \A c, d \in Listing :
        listing[c].of = Schemas /\ listing[d].of = Schemas =>
            \A i \in DOMAIN listing[c].got, j \in DOMAIN listing[d].got :
                listing[c].got[i] = listing[d].got[j] => c = d /\ i = j

\* A cursor of list_catalogs that ends has returned nothing unless there was another one,
\* whose open replaced the list.
CatalogsEndEmpty ==
    \A c \in Listing :
        listing[c].state = "ended" /\ listing[c].of = Catalogs =>
            listing[c].got = <<>> \/ \E d \in Listing \ {c} : listing[d].of = Catalogs

=============================================================================
