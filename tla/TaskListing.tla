---------------------------- MODULE TaskListing ----------------------------
(* tasks/list of the two task stores, page by page, while the tasks change: *)
(* other requests save and delete tasks between two pages of one listing.   *)
(* The order is (has timestamp, timestamp, id) descending; the token of a   *)
(* page carries the position of its last task.  The database keeps a        *)
(* timestamp in microseconds and has one row per id, whoever owns it.       *)
EXTENDS Naturals, Sequences, FiniteSets

CONSTANTS ListIds,          \* task ids, compared as numbers
          ListOwners,       \* owners; the listing's caller is ListCaller
          ListCaller,
          ListTasks,        \* what is saved: a status timestamp in nanoseconds, context and state
          ListFilters,      \* what a caller asks for: status_timestamp_after, context and state
          NoStamp,          \* a task or a filter without a timestamp
          Unset,            \* a filter without a context or a state
          MicroSecond,      \* nanoseconds per database tick
          ListSizes,        \* page sizes a caller asks for
          MaxChanges        \* bound: saves and deletions during a listing

ASSUME ListingConstants ==
    /\ ListIds \subseteq Nat /\ NoStamp \notin Nat
    /\ \A t \in ListTasks : t.stamp \in Nat \cup {NoStamp}
    /\ \A f \in ListFilters : f.after \in Nat \cup {NoStamp}
    /\ MicroSecond \in Nat \ {0} /\ ListSizes \subseteq Nat \ {0} /\ MaxChanges \in Nat

VARIABLES listKind,         \* "memory" or "database"
          listRows,         \* the stored tasks
          listing           \* the caller's listing
listVars == <<listKind, listRows, listing>>

NoToken == [kind |-> "none"]
CursorToken(at, id) == [kind |-> "cursor", at |-> at, id |-> id]
\* the token of an older server names the first task of the page
TaskToken(id) == [kind |-> "task", id |-> id]

(* ---- rows ---- *)
\* the last_updated column; the task itself keeps its timestamp
LastUpdated(kind, stamp) ==
    IF kind = "memory" \/ stamp = NoStamp THEN stamp
    ELSE (stamp \div MicroSecond) * MicroSecond
Row(owner, id, task) ==
    [owner |-> owner, id |-> id, stamp |-> LastUpdated(listKind, task.stamp),
     context |-> task.context, state |-> task.state]
OwnerRows == {r \in listRows : r.owner = ListCaller}
\* the rows a save or a deletion of the id replaces
SavedOver(owner, id) ==
    {r \in listRows : r.id = id /\ (listKind = "memory" => r.owner = owner)}
DeletedRows(owner, id) == {r \in listRows : r.id = id /\ r.owner = owner}

(* ---- order and position ---- *)
SortKey(at, id) == IF at = NoStamp THEN <<0, 0, id>> ELSE <<1, at, id>>
KeyLess(k, m) ==
    \/ k[1] < m[1]
    \/ k[1] = m[1] /\ (k[2] < m[2] \/ (k[2] = m[2] /\ k[3] < m[3]))
MemoryAfter(r, token) == KeyLess(SortKey(r.stamp, r.id), SortKey(token.at, token.id))
\* the same position in SQL, where a comparison with NULL selects nothing
SqlLess(a, b) == a # NoStamp /\ b # NoStamp /\ a < b
DatabaseAfter(r, token) ==
    IF token.at = NoStamp
    THEN r.stamp = NoStamp /\ r.id < token.id
    ELSE \/ SqlLess(r.stamp, token.at)
         \/ r.stamp = token.at /\ r.id < token.id
         \/ r.stamp = NoStamp
\* bug variant: the position is looked up from the task the cursor names
AfterLookedUp(r, token) ==
    \A t \in OwnerRows : t.id = token.id => KeyLess(SortKey(r.stamp, r.id), SortKey(t.stamp, t.id))
AfterCursor(r, token) ==
    IF listKind = "memory" THEN MemoryAfter(r, token) ELSE DatabaseAfter(r, token)
\* an older token: from its task on, where the memory looks among the filtered tasks
LegacyStart(rows, token) ==
    {r \in IF listKind = "memory" THEN rows ELSE OwnerRows : r.id = token.id}
LegacyFrom(r, start) == ~KeyLess(SortKey(start.stamp, start.id), SortKey(r.stamp, r.id))

(* ---- filters ---- *)
\* context_id, status and status_timestamp_after, of which the database compares ticks
Filtered(filter) ==
    {r \in OwnerRows :
        /\ filter.context # Unset => r.context = filter.context
        /\ filter.status # Unset => r.state = filter.status
        /\ filter.after # NoStamp =>
              r.stamp # NoStamp /\ r.stamp >= LastUpdated(listKind, filter.after)}

(* ---- a page ---- *)
Candidates(rows, token) ==
    CASE token.kind = "none" -> rows
      [] token.kind = "cursor" -> {r \in rows : AfterCursor(r, token)}
      [] token.kind = "task" ->
           {r \in rows : \A start \in LegacyStart(rows, token) : LegacyFrom(r, start)}
Above(r, rows) == {q \in rows : KeyLess(SortKey(r.stamp, r.id), SortKey(q.stamp, q.id))}
PageRows(candidates, size) == {r \in candidates : Cardinality(Above(r, candidates)) < size}
\* the position of the page's last task, when there are more
NextToken(candidates, size) ==
    IF Cardinality(candidates) <= size THEN NoToken
    ELSE LET last == CHOOSE r \in candidates : Cardinality(Above(r, candidates)) = size - 1
         IN CursorToken(last.stamp, last.id)
Ids(rows) == {r.id : r \in rows}

ListingInit ==
    /\ listKind \in {"memory", "database"}
    /\ listRows = {}
    /\ listing = [phase |-> "none", filter |-> Unset, token |-> NoToken, pages |-> <<>>,
                  wanted |-> {}, changed |-> {}, changes |-> 0]

Listed(size, token, filter) ==
    LET candidates == Candidates(Filtered(filter), token)
    IN [ids |-> Ids(PageRows(candidates, size)), next |-> NextToken(candidates, size)]
Turned(page) ==
    [listing EXCEPT !.pages = Append(@, page.ids), !.token = page.next,
                    !.phase = IF page.next = NoToken THEN "done" ELSE "more"]

\* the tasks of the store before the listing
SaveBefore ==
    \E owner \in ListOwners, id \in ListIds, task \in ListTasks :
        /\ listing.phase = "none"
        /\ \A r \in listRows : r.id < id
        /\ listRows' = listRows \cup {Row(owner, id, task)}
        /\ UNCHANGED <<listKind, listing>>
\* the first page; with an older token from its task on
FirstPage ==
    \E size \in ListSizes, filter \in ListFilters,
       token \in {NoToken} \cup {TaskToken(id) : id \in ListIds} :
        /\ listing.phase = "none"
        /\ token # NoToken => LegacyStart(Filtered(filter), token) # {}
        /\ listing' = [Turned(Listed(size, token, filter)) EXCEPT
                         !.filter = filter, !.wanted = Ids(Candidates(Filtered(filter), token))]
        /\ UNCHANGED <<listKind, listRows>>
\* an older token of a task that is gone, or filtered out of the memory
PageRefused ==
    \E filter \in ListFilters, id \in ListIds :
        /\ listing.phase = "none"
        /\ LegacyStart(Filtered(filter), TaskToken(id)) = {}
        /\ listing' = [listing EXCEPT !.phase = "refused"]
        /\ UNCHANGED <<listKind, listRows>>
NextPage ==
    \E size \in ListSizes :
        /\ listing.phase = "more"
        /\ listing' = Turned(Listed(size, listing.token, listing.filter))
        /\ UNCHANGED <<listKind, listRows>>
Changes(ids) == [listing EXCEPT !.changed = @ \cup ids, !.changes = @ + 1]
SaveTask ==
    \E owner \in ListOwners, id \in ListIds, task \in ListTasks :
        /\ listing.phase = "more" /\ listing.changes < MaxChanges
        /\ listRows' = (listRows \ SavedOver(owner, id)) \cup {Row(owner, id, task)}
        /\ listing' = Changes(IF owner = ListCaller THEN {id} ELSE Ids(SavedOver(owner, id)))
        /\ UNCHANGED listKind
DeleteTask ==
    \E owner \in ListOwners, id \in ListIds :
        /\ listing.phase = "more" /\ listing.changes < MaxChanges
        /\ DeletedRows(owner, id) # {}
        /\ listRows' = listRows \ DeletedRows(owner, id)
        /\ listing' = Changes(IF owner = ListCaller THEN {id} ELSE {})
        /\ UNCHANGED listKind
ListingNext ==
    SaveBefore \/ FirstPage \/ PageRefused \/ NextPage \/ SaveTask \/ DeleteTask

Pages(id) == {i \in DOMAIN listing.pages : id \in listing.pages[i]}
(* A task that matches when its listing begins, and that nobody saves or    *)
(* deletes meanwhile, is on exactly one page when the listing ends, in both *)
(* stores and whatever happens to the tasks around it, those a token was    *)
(* made from included; only tasks of the caller are listed, and a task that *)
(* is listed twice was changed in between.                                  *)
PagesComplete ==
    /\ \A id \in ListIds \ listing.changed :
         /\ Cardinality(Pages(id)) <= 1
         /\ Pages(id) # {} => id \in listing.wanted
         /\ listing.phase = "done" /\ id \in listing.wanted => Pages(id) # {}
    /\ listing.phase \in {"more", "done"} => listing.pages # <<>>
    /\ \A i \in DOMAIN listing.pages : i < Len(listing.pages) => listing.pages[i] # {}
=============================================================================
