------------------------------- MODULE StoreKeys -------------------------------
(***************************************************************************)
(* The key layout of the resource store (internal/store/badger).  The      *)
(* store keeps, for every resource of a kind, one main record under        *)
(* "/namespace/Kind/name" and one record for each version under the same   *)
(* key followed by ":vN".  Here a resource is a pair <<namespace, name>>   *)
(* and its row maps 0 to the main record and n > 0 to version n.           *)
(***************************************************************************)
EXTENDS Integers, FiniteSets, FiniteSetsExt

CONSTANTS
    Namespaces,     \* the cells, one of which may be the empty namespace
    Names,          \* resource names
    Values,         \* resource contents
    NoValue,        \* the absence of a record
    Keep,           \* Store.maxVersions
    VersionBound    \* bound of the model: the highest version number written

ASSUME NoValueAssumption == NoValue \notin Values
ASSUME KeepAssumption == Keep \in Nat \ {0}
ASSUME VersionBoundAssumption == VersionBound \in Nat \ {0}

Keys == Namespaces \X Names

\* A cell is one badger key: the main record (0) or a version of a resource.
Cells == Keys \X (0 .. VersionBound)

Rows == [0 .. VersionBound -> Values \cup {NoValue}]
EmptyRow == [n \in 0 .. VersionBound |-> NoValue]

Exists(row) == row[0] # NoValue

Versions(row) == {n \in 1 .. VersionBound : row[n] # NoValue}

\* One more than the highest version record found, 1 when there is none.
NextVersion(row) == Max(Versions(row) \cup {0}) + 1

\* The version records a prune pass removes: all but the Keep highest.
Surplus(row) == {n \in Versions(row) : Cardinality({m \in Versions(row) : m > n}) >= Keep}

\* A version record that Keep newer versions of its resource outrank.
Outranked(db, cell) == cell[2] \in Surplus(db[cell[1]])

Erase(db, D) ==
    [k \in Keys |-> [n \in 0 .. VersionBound |->
        IF <<k, n>> \in D THEN NoValue ELSE db[k][n]]]

================================================================================
