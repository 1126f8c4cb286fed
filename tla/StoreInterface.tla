--------------------------- MODULE StoreInterface ---------------------------
(***************************************************************************)
(* The calls of a Store (store.go): named objects in collections, and what *)
(* is asked of them and answered.  Shared by the contract every store keeps*)
(* and by the store that keeps its objects in files.                       *)
(***************************************************************************)
EXTENDS Integers

CONSTANTS
  Callers,       \* goroutines that call the store
  Names,         \* object names
  CollectionOf,  \* the collection of each name
  Values,        \* what is saved under a name, encoded
  VersionOf,     \* the version of an entry with that value
  ClientCalls    \* the calls that are made

\* The collections, each with its Save (or Put), Get, Delete and List.
Blobs             == "blobs"
Sessions          == "sessions"
NamespaceQuotas   == "namespaces"
Entries           == "entries"
Pins              == "pins"
PinRequests       == "pin_requests"
Decisions         == "evictions"
Promotions        == "promotions"
PromotionRequests == "promo_requests"
RedoLogs          == "promo_txns"

Collections == {Blobs, Sessions, NamespaceQuotas, Entries, Pins, PinRequests, Decisions,
                Promotions, PromotionRequests, RedoLogs}

Absent      == "absent"   \* no object of that name
BlobContent == "bytes"    \* the content whose digest is the blob's name
Contents    == Values \cup {BlobContent}

\* The objects of a collection.
In(col) == {n \in Names : CollectionOf[n] = col}

OnlyNew == -1   \* wantVersion < 0: the entry must not exist

\* A blob has one content, what is put under another name is a value; only entries
\* are put under a condition; the request records of promotions stay.
PutCalls ==
  {c \in [op : {"put"}, name : Names, value : Contents, want : {OnlyNew} \cup Nat] :
     /\ CollectionOf[c.name] = Blobs <=> c.value = BlobContent
     /\ CollectionOf[c.name] # Entries => c.want = OnlyNew}
DeleteCalls == [op : {"delete"}, name : Names \ In(PromotionRequests)]
GetCalls    == [op : {"get"}, name : Names]
ListCalls   == [op : {"list"}, collection : Collections]
NoCall      == [op |-> "none"]

ASSUME StoreAssumption ==
  /\ CollectionOf \in [Names -> Collections]
  /\ VersionOf \in [Values -> Nat \ {0}]
  /\ Absent \notin Contents
  /\ BlobContent \notin Values
  /\ ClientCalls \subseteq PutCalls \cup DeleteCalls \cup GetCalls \cup ListCalls

\* PutEntry's condition; the other collections are overwritten without one.
Allowed(c, old) ==
  CollectionOf[c.name] = Entries =>
    IF old = Absent THEN c.want = OnlyNew ELSE c.want = VersionOf[old]

\* What a name can hold.
Holds(n) == {Absent} \cup (IF CollectionOf[n] = Blobs THEN {BlobContent} ELSE Values)

\* Answers.  A listing tells of each name what is saved under it, if anything.
Pending          == [status |-> "pending"]
Done             == [status |-> "ok"]
ConditionFailed  == [status |-> "condition_failed"]
Failed           == [status |-> "error"]
Found(content)   == [status |-> "found", value |-> content]
Listed(contents) == [status |-> "listed", values |-> contents]

Answers ==
  {Pending, Done, ConditionFailed, Failed}
    \cup {Found(content) : content \in Contents \cup {Absent}}
    \cup UNION {{Listed(f) : f \in [In(col) -> Contents \cup {Absent}]} : col \in Collections}
=============================================================================
