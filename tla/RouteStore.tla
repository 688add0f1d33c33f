----------------------------- MODULE RouteStore -----------------------------
(***************************************************************************)
(* Windows that edit the SSH routes of one browser profile                 *)
(* (src/static/js/standterm-ssh-route-editor.js, -routes.js load and save, *)
(* -node-auth.js, and the page's own savers in src/templates/index.html).  *)
(* The catalogue and the key store are one IndexedDB that every window     *)
(* shares; a window edits a draft of its own and publishes it in one       *)
(* transaction, which is refused if the catalogue has moved on.            *)
(***************************************************************************)
EXTENDS RouteGraph

CONSTANTS Window,
          Begin,        \* the catalogues the browser profile may start with
          Incoming,     \* the catalogues of the files that may be imported
          History,      \* the ids of history entries; the others are profiles
          MaxHistory,   \* history entries that are kept, 6 in the code
          Recent,       \* bound: routes as they were connected to
          Direct,       \* bound: what a direct connection that is saved was made with
          MaxRevision,  \* bound: no work starts on this catalogue
          MaxEdits,     \* bound: MaxEdits[w], the edits made in a window
          Typed,        \* bound: what is typed into a card, of Host and Blank
          Spare         \* bound: free ids a draft needs for another edit

\* What the database holds at first: a catalogue that an earlier save has checked,
\* in which the key of an entry is its own, and only a profile has one.
ASSUME BeginAssumption == \A s \in Begin :
    /\ DOMAIN s = {"rev", "nodes", "entries"} /\ s.rev \in Nat
    /\ IsFiniteSet(DOMAIN s.nodes) /\ Valid(s)
    /\ \A e \in DOMAIN s.entries : LET k == s.entries[e].key
                                   IN  /\ DOMAIN s.entries[e] = {"start", "key"}
                                       /\ k # None => k \in Ref /\ k.owner = e /\ e \notin History

ASSUME HistoryAssumption ==
    /\ History \subseteq Entry /\ MaxHistory \in Nat \ {0}
    /\ \A chain \in Recent : chain \in Seq(Fields) /\ chain # <<>>
    /\ Direct \subseteq Fields
    /\ \A s \in Incoming : /\ DOMAIN s = {"rev", "nodes", "entries"} /\ IsFiniteSet(DOMAIN s.nodes)
                           /\ \A e \in DOMAIN s.entries : DOMAIN s.entries[e] = {"start", "key"}

VARIABLES
    stored,   \* the published catalogue: [rev, nodes, entries]
    keys,     \* the key records of the same database
    seen,     \* seen[w]: the revision the window's own copy of the catalogue has
    ed,       \* ed[w]: the window's route editor
    edits     \* edits[w]: how many edits the window made, for the bound

vars == <<stored, keys, seen, ed, edits>>

(* A closed editor.  An open one also has the kind of editor, the entry it       *)
(* edits, the draft, the catalogue it started from, the fields as they stand in  *)
(* the cards, the edit scope, the keys made in it, the key being made, whether a *)
(* cycle is shown for repair, the entries the window names as affected by the    *)
(* edits so far, and those it had named when this editor opened.  The kinds are  *)
(* the one node of a profile "inline" in the profile manager, the route dialog   *)
(* of the manager ("manage"), and the dialog of the connection form ("prepare"), *)
(* whose draft waits, out of the editor, until a connection is made with it.     *)
Closed == [mode |-> "closed"]
Open(w) == ed[w].mode = "open"
Waiting(w) == ed[w].mode = "saving" /\ ed[w].kind = "prepare"

(* updateScopeNotice: whom edits of the cards on show affect. *)
Noticed(x) == IF x.scope = "entry" THEN {x.entry}
              ELSE UNION {References(x.draft, n) : n \in Range(Route(x.draft, x.entry).path)}

(* Fields typed into the cards go into the draft, card by card. *)
FlushCard(x, s, i) ==
    LET hop == s.nodes[Route(s, x.entry).path[i]]
    IN  IF FieldsOf(hop) = x.cards[i] THEN s
        ELSE ReplaceDraftNode(s, x.entry, i, x.scope, Linked(x.cards[i], hop.next))
Flush(x) ==
    LET draft[i \in 0..Len(x.cards)] ==
            IF i = 0 THEN x.draft ELSE FlushCard(x, draft[i-1], i)
    IN  [x EXCEPT !.draft = draft[Len(x.cards)],
                  !.told = @ \cup Noticed(x)]

(* The keys a card can use: the ones for its endpoint. *)
Candidates(x, host) == {k \in keys \cup x.made : k.host = host /\ OwnerHasKey(x.draft, k)}

(* A card that is to use a key, and has none, takes the only candidate by itself. *)
Chosen(x, card) ==
    LET found == Candidates(x, card.host)
    IN  IF card.key = Unset /\ Cardinality(found) = 1
        THEN [card EXCEPT !.key = CHOOSE k \in found : TRUE] ELSE card

(* The cards are drawn again: an answer for a card that is gone selects nothing. *)
Render(x) ==
    LET chain == ChainOf(x.draft, x.entry)
    IN  [x EXCEPT !.cards = [i \in DOMAIN chain |-> Chosen(x, chain[i])], !.making.card = 0]

Draw(w, x) == /\ ed' = [ed EXCEPT ![w] = x]
              /\ UNCHANGED <<stored, keys, seen>>
CanEdit(w) == edits[w] < MaxEdits[w]
Edited(w, x) == /\ CanEdit(w)
                /\ edits' = [edits EXCEPT ![w] = @ + 1]
                /\ Draw(w, x)

Space(w) == Room(ed[w].draft.nodes, Spare)

----------------------------------------------------------------------------
Init == /\ stored \in Begin
        /\ keys = Ref \cap ({stored.entries[e].key : e \in DOMAIN stored.entries}
                          \cup {stored.nodes[n].key : n \in DOMAIN stored.nodes})
        /\ seen = [w \in Window |-> stored.rev]
        /\ ed = [w \in Window |-> Closed]
        /\ edits = [w \in Window |-> 0]

(* An editor opens on a snapshot of the database, on an entry or on a new profile; *)
(* the profile manager shows a profile of one node without a dialog.               *)
OpenEditor(w, e, form) ==
    /\ ed[w] = Closed
    /\ seen[w] = stored.rev /\ stored.rev < MaxRevision
    /\ CanEdit(w)   \* bound: no editor without an edit to come
    /\ e \in DOMAIN stored.entries \/ e \notin History
    /\ form \/ e \notin History
    /\ LET node == Fresh(stored.nodes, 1)[1]
           draft == IF e \in DOMAIN stored.entries THEN stored
                    ELSE [stored EXCEPT
                            !.nodes = Added(@, [n \in {node} |-> [next |-> None, host |-> Blank, key |-> None]]),
                            !.entries = Added(@, [o \in {e} |-> [start |-> node, key |-> None]])]
           kind == IF form THEN "prepare" ELSE IF Len(ChainOf(draft, e)) = 1 THEN "inline" ELSE "manage"
       IN  /\ Room(stored.nodes, 1)
           /\ ed' = [ed EXCEPT ![w] = Render(
                  [mode |-> "open", kind |-> kind, entry |-> e, draft |-> draft, base |-> stored,
                   cards |-> <<>>, scope |-> "entry", made |-> {},
                   making |-> [card |-> 0, host |-> None], offered |-> FALSE,
                   told |-> {e}, named |-> {e}])]
    /\ UNCHANGED <<stored, keys, seen, edits>>

(* The dialog opens again on the draft that waits; that is what it starts from now. *)
Reopen(w) ==
    /\ Waiting(w) /\ seen[w] = stored.rev
    /\ LET x == ed[w]
       IN  Draw(w, Render([x EXCEPT !.mode = "open", !.base = x.draft, !.scope = "entry",
                                    !.named = x.told]))
    /\ UNCHANGED edits

SetScope(w, scope) == /\ Open(w) /\ ed[w].kind # "inline" /\ ed[w].scope # scope
                      /\ CanEdit(w)   \* bound: no use without an edit to come
                      /\ Draw(w, [ed[w] EXCEPT !.scope = scope]) /\ UNCHANGED edits

(* Typing leaves a key that was chosen as it is, and clears the status line. *)
TypeHost(w, i, h) ==
    /\ Open(w) /\ i \in DOMAIN ed[w].cards /\ ed[w].cards[i].host # h
    /\ LET x == ed[w]
       IN  Edited(w, [x EXCEPT !.cards[i] = Chosen(x, [@ EXCEPT !.host = h]), !.offered = FALSE])

KeyOff(w, i) ==
    /\ Open(w) /\ i \in DOMAIN ed[w].cards
    /\ ed[w].cards[i].key # None /\ ed[w].cards[i].host # Blank
    /\ ed[w].making.host = None \/ ed[w].making.card # i
    /\ Edited(w, [ed[w] EXCEPT !.cards[i].key = None, !.offered = FALSE])

(* Use key: the only candidate, the user's choice of several, now or later, or a *)
(* new key, which the browser makes while the editor stays usable.               *)
KeyOn(w, i) ==
    /\ Open(w) /\ i \in DOMAIN ed[w].cards
    /\ ed[w].cards[i].key \in {None, Unset} /\ ed[w].cards[i].host # Blank
    /\ LET x == ed[w]
           found == Candidates(x, x.cards[i].host)
       IN  \/ \E k \in found :
                 Edited(w, [x EXCEPT !.cards[i].key = k, !.offered = FALSE])
           \/ /\ Cardinality(found) > 1 /\ x.cards[i].key # Unset
              /\ Edited(w, [x EXCEPT !.cards[i].key = Unset, !.offered = FALSE])
           \/ /\ found = {} /\ x.making.host = None   \* bound: one key is made at a time
              /\ Edited(w, [x EXCEPT !.cards[i].key = Unset, !.offered = FALSE,
                                     !.making = [card |-> i, host |-> x.cards[i].host]])

(* The key is there: its card takes it if it still stands for the same endpoint. *)
KeyMade(w) ==
    /\ ed[w].mode # "closed" /\ ed[w].making.host # None
    /\ LET x == ed[w]
           key == [owner |-> None, host |-> x.making.host]
           i == x.making.card
           y == [x EXCEPT !.made = @ \cup {key}, !.making = [card |-> 0, host |-> None]]
       IN  ed' = [ed EXCEPT ![w] = IF i # 0 /\ x.cards[i].host = key.host
                                   THEN [y EXCEPT !.cards[i].key = key] ELSE y]
    /\ UNCHANGED <<stored, keys, seen, edits>>

KeyFails(w) ==
    /\ ed[w].mode # "closed" /\ ed[w].making.host # None
    /\ ed' = [ed EXCEPT ![w].making = [card |-> 0, host |-> None]]
    /\ UNCHANGED <<stored, keys, seen, edits>>

----------------------------------------------------------------------------
CanChangeOrder(x) == Route(x.draft, x.entry).error \in {"none", "depth"}

(* Add, move and remove give the entry a route of its own with the cards in  *)
(* the new order; none of them is possible while a link is wrong.  The first *)
(* jump of a profile opens the dialog of the manager.                        *)
CardChain(w) == LET x == Flush(ed[w]) IN ChainOf(x.draft, x.entry)

ReplacePath(w, chain) ==
    /\ Open(w) /\ CanChangeOrder(ed[w]) /\ Space(w)
    /\ LET x == Flush(ed[w])
       IN  Edited(w, Render([x EXCEPT !.draft = CopyPath(@, x.entry, chain),
                                      !.kind = IF @ = "inline" THEN "manage" ELSE @]))

AddJump(w) ==
    ReplacePath(w, InsertAt(CardChain(w), Len(CardChain(w)), [host |-> Blank, key |-> None]))

MoveCard(w, from, to) ==
    /\ Open(w) /\ from # to /\ {from, to} \subseteq DOMAIN ed[w].cards
    /\ ReplacePath(w, InsertAt(RemoveAt(CardChain(w), from), to, CardChain(w)[from]))

RemoveCard(w, i) ==
    /\ Open(w) /\ Len(ed[w].cards) > 1 /\ i \in DOMAIN ed[w].cards
    /\ ReplacePath(w, RemoveAt(CardChain(w), i))

(* The route of another entry follows card i from now on, shared or copied. *)
Link(x, s, i, next) ==
    LET hop == s.nodes[Route(s, x.entry).path[i]]
    IN  [x EXCEPT !.draft = ReplaceDraftNode(s, x.entry, i, x.scope, [hop EXCEPT !.next = next])]
LinkCopy(x, i, chain, ids) ==
    Link(x, [x.draft EXCEPT !.nodes = CopyNodes(@, chain, ids)], i, ids[1])
Appended(x, i, other, copy) ==
    IF ~ copy THEN Link(x, x.draft, i, x.draft.entries[other].start)
    ELSE IF Route(x.draft, other).error \notin {"none", "depth"} THEN x
    ELSE LinkCopy(x, i, ChainOf(x.draft, other),
                  Fresh(x.draft.nodes, Len(Route(x.draft, other).path)))

AppendRoute(w, i, other, copy) ==
    /\ Open(w) /\ ed[w].kind # "inline" /\ CanChangeOrder(ed[w]) /\ Space(w)
    /\ i \in DOMAIN ed[w].cards /\ other \in DOMAIN ed[w].draft.entries
    /\ Edited(w, Render(Appended(Flush(ed[w]), i, other, copy)))

\* Fault: a repair keeps the edits that led to the cycle.
Faulty_Repair(w, path) ==
    /\ Open(w) /\ ed[w].offered
    /\ LET x == ed[w]
           base == x.draft
       IN  /\ path \in RepairCandidates(x.draft, x.entry)
           /\ Room(base.nodes, Len(path))
           /\ Draw(w, Render([x EXCEPT !.draft = CopyPath(base, x.entry, Chain(x.draft, path)),
                                       !.offered = FALSE, !.told = x.named]))
    /\ UNCHANGED edits

(* A repair starts again from the catalogue as it was when the editor opened. *)
Repair(w, path) ==
    /\ Open(w) /\ ed[w].offered
    /\ LET x == ed[w]
           base == [x.base EXCEPT !.entries = Added(@, [e \in {x.entry} |-> x.draft.entries[e]])]
       IN  /\ path \in RepairCandidates(x.draft, x.entry)
           /\ Room(base.nodes, Len(path))
           /\ Draw(w, Render([x EXCEPT !.draft = CopyPath(base, x.entry, Chain(x.draft, path)),
                                       !.offered = FALSE, !.told = x.named]))
    /\ UNCHANGED edits

(* Done, or Save of the one node: what is typed goes in; a cycle is shown for   *)
(* repair, an incomplete or invalid route stays in the editor, and a good one is *)
(* on its way to the store, at once or with the next connection.                *)
Complete(kind, chain) ==
    \A i \in DOMAIN chain : PublicNode(chain[i]) /\ (kind = "inline" \/ chain[i].key # Unset)
Submit(x, tidy) ==
    [x EXCEPT !.draft = tidy, !.offered = FALSE, !.mode = IF Valid(tidy) THEN "saving" ELSE "open"]
Checked(x, error) ==
    IF error = "cycle" THEN [x EXCEPT !.offered = TRUE]
    ELSE IF error # "none" \/ ~ Complete(x.kind, ChainOf(x.draft, x.entry)) THEN [x EXCEPT !.offered = FALSE]
    ELSE Submit(x, DiscardUnused(x.draft, x.base))

Done(w) ==
    /\ Open(w) /\ ed[w].making.host = None /\ Space(w)
    /\ LET x == Flush(ed[w])
       IN  ed' = [ed EXCEPT ![w] = Checked(x, Route(x.draft, x.entry).error)]
    /\ UNCHANGED <<stored, keys, seen, edits>>

Cancel(w) == /\ Open(w) \/ Waiting(w)
             /\ ed' = [ed EXCEPT ![w] = Closed]
             /\ UNCHANGED <<stored, keys, seen, edits>>

----------------------------------------------------------------------------
\* Fault: a save publishes whatever the catalogue is now.
Faulty_Stale(s) == FALSE

Stale(s) == s.rev # stored.rev

(* One transaction: the catalogue and the keys it uses, if nobody was faster. *)
Save(s, put, dropped) ==
    LET records == (keys \cup put) \ dropped
    IN  /\ ~ Stale(s)
        /\ \A n \in DOMAIN s.nodes : LET k == s.nodes[n].key
                                     IN  k \in Ref /\ k.owner = None => k \in records
        /\ stored' = [s EXCEPT !.rev = @ + 1]
        /\ keys' = records

Used(x) == {x.draft.nodes[n].key : n \in DOMAIN x.draft.nodes} \cap x.made

(* The editor closes when its save is through; the window has the new catalogue. *)
Commit(w) ==
    /\ ed[w].mode = "saving" /\ Valid(ed[w].draft)
    /\ Save(ed[w].draft, Used(ed[w]), {})
    /\ seen' = [seen EXCEPT ![w] = stored.rev + 1]
    /\ ed' = [ed EXCEPT ![w] = Closed]
    /\ UNCHANGED edits

(* Refused as stale, for a missing key, or by the browser: the draft is still there. *)
CommitFails(w) ==
    /\ ed[w].mode = "saving" /\ ~ Waiting(w)
    /\ ed' = [ed EXCEPT ![w].mode = "open"]
    /\ UNCHANGED <<stored, keys, seen, edits>>

(* The page's own changes, made on its copy of the catalogue.  A copy with the *)
(* store's revision has the store's contents, so the copy itself is not kept.  *)
UpToDate(w) == /\ seen[w] = stored.rev /\ stored.rev < MaxRevision
               /\ \A v \in Window : ~ Open(v)   \* bound: it may as well wait for the draft to be ready
Alone(w) == ed[w] = Closed   \* bound: beside an editor, another window does it
Publish(w, s, put, dropped) ==
    /\ Valid(s) /\ Save(s, put, dropped)
    /\ seen' = [seen EXCEPT ![w] = stored.rev + 1]
    /\ UNCHANGED edits

DeleteEntry(w, e) ==
    /\ UpToDate(w) /\ Alone(w) /\ e \in DOMAIN stored.entries
    /\ Publish(w, [stored EXCEPT !.entries = [o \in DOMAIN @ \ {e} |-> @[o]]],
               {}, {stored.entries[e].key} \ {None})
    /\ UNCHANGED ed

(* The entries of a file, under new names; history only as far as there is room. *)
Import(w, incoming, names) ==
    /\ UpToDate(w) /\ Alone(w)
    /\ Valid(ExportState(incoming)) /\ Room(stored.nodes, Cardinality(DOMAIN incoming.nodes))
    /\ Publish(w, ImportState(stored, incoming, names), {}, {})
    /\ UNCHANGED ed

HostsOf(chain) == [i \in DOMAIN chain |-> chain[i].host]
SameHosts(s, chain) == {e \in DOMAIN s.entries : HostsOf(ChainOf(s, e)) = HostsOf(chain)}

(* Entry e, old or new, goes through a new chain; out are entries it supersedes. *)
Put(s, e, chain, ids, out) ==
    LET entries == Added([o \in DOMAIN s.entries \ out |-> s.entries[o]],
                         [o \in {e} |-> [start |-> None, key |-> None]])
    IN  [s EXCEPT !.nodes = CopyNodes(@, chain, ids), !.entries = [entries EXCEPT ![e].start = ids[1]]]

(* A direct connection is saved: in the profile of one node for this endpoint, if *)
(* there is one or one is selected, and in a new profile otherwise.               *)
ConnectSave(w, e, fields) ==
    /\ UpToDate(w) /\ Alone(w) /\ Room(stored.nodes, 1)
    /\ e \notin History /\ PublicNode(fields) /\ fields.key # Unset
    /\ LET matching == SameHosts(stored, <<fields>>) \ History
       IN  e \in matching \/ (e \notin DOMAIN stored.entries /\ Cardinality(matching) # 1)
    /\ Publish(w, Put(stored, e, <<fields>>, Fresh(stored.nodes, 1), {}),
               {k \in {fields.key} : k \in Ref /\ k.owner = None}, {})
    /\ UNCHANGED ed

(* The draft that waits takes over the history and the nodes that were added to *)
(* the store, and stands for the new revision.                                  *)
Rebased(x, s) ==
    LET others == History \ {x.entry}
        profiles == [o \in DOMAIN x.draft.entries \ others |-> x.draft.entries[o]]
        draft == [rev |-> s.rev, nodes |-> Added(x.draft.nodes, s.nodes),
                  entries |-> Added(profiles, [o \in DOMAIN s.entries \cap others |-> s.entries[o]])]
    IN  [x EXCEPT !.draft = draft, !.base = draft]

(* A connection that was made goes to the front of the history, in place of the *)
(* entry for the same hosts; what is too much drops out at the end.  Which of   *)
(* the others is the oldest is left open.                                       *)
NewHistory == CHOOSE h \in History : h \notin DOMAIN stored.entries
RecordHistory(w, h, chain, out) ==
    LET matching == SameHosts(stored, chain) \cap History
        left == (DOMAIN stored.entries \cap History) \ (matching \cup {h})
        known == IF Waiting(w) THEN Added(stored.nodes, ed[w].draft.nodes) ELSE stored.nodes
    IN  /\ UpToDate(w) /\ Room(known, Len(chain))
        /\ h \in IF matching = {} THEN {NewHistory} ELSE matching
        /\ out \subseteq left
        /\ Cardinality(left \ out) = IF Cardinality(left) < MaxHistory THEN Cardinality(left) ELSE MaxHistory - 1
        /\ Publish(w, Put(stored, h, chain, Fresh(known, Len(chain)), out \cup (matching \ {h})), {}, {})
        /\ ed' = IF Waiting(w) /\ ~ Stale(ed[w].draft)
                 THEN [ed EXCEPT ![w] = Rebased(@, stored')] ELSE ed

(* The page is loaded again, whatever it was doing. *)
Reload(w) ==
    /\ ed[w] = Closed /\ seen[w] # stored.rev => stored.rev < MaxRevision   \* bound
    /\ seen' = [seen EXCEPT ![w] = stored.rev]
    /\ ed' = [ed EXCEPT ![w] = Closed]
    /\ UNCHANGED <<stored, keys, edits>>

(* New names for the imported entries: all profiles, and the history there is room for. *)
Renames(incoming) ==
    LET source == DOMAIN incoming.entries
        past == Cardinality(DOMAIN stored.entries \cap History) + Cardinality(source \cap History)
    IN  {names \in UNION {[S -> source] : S \in SUBSET (Entry \ DOMAIN stored.entries)} :
            /\ IsInjective(names) /\ source \ History \subseteq Range(names)
            /\ \A e \in DOMAIN names : e \in History <=> names[e] \in History
            /\ Cardinality((DOMAIN stored.entries \cup DOMAIN names) \cap History)
                 = IF past > MaxHistory THEN MaxHistory ELSE past}

(* What an editor, and the page, can do next; the guards they share are in Next. *)
Editing(w) ==
    \/ \E i \in DOMAIN ed[w].cards :
          \/ KeyOn(w, i) \/ KeyOff(w, i) \/ RemoveCard(w, i)
          \/ \E h \in Typed : TypeHost(w, i, h)
          \/ \E j \in DOMAIN ed[w].cards : MoveCard(w, i, j)
          \/ \E e \in Entry, copy \in BOOLEAN : AppendRoute(w, i, e, copy)
    \/ \E scope \in {"entry", "all"} : SetScope(w, scope)
    \/ AddJump(w)

Deciding(w) ==
    \/ \E path \in RepairCandidates(ed[w].draft, ed[w].entry) : Repair(w, path)
    \/ Done(w) \/ Cancel(w)

PageSaves(w) ==
    \/ \E e \in Entry : DeleteEntry(w, e) \/ \E fields \in Direct : ConnectSave(w, e, fields)
    \/ \E h \in History, chain \in Recent, out \in SUBSET History : RecordHistory(w, h, chain, out)
    \/ \E incoming \in Incoming : \E names \in Renames(incoming) : Import(w, incoming, names)

Next == \E w \in Window :
    \/ \E e \in Entry, form \in BOOLEAN : OpenEditor(w, e, form)
    \/ Open(w) /\ CanEdit(w) /\ Editing(w)
    \/ Open(w) /\ Deciding(w)
    \/ KeyMade(w) \/ KeyFails(w)
    \/ Commit(w) \/ CommitFails(w) \/ Reopen(w) \/ (Waiting(w) /\ Cancel(w)) \/ Reload(w)
    \/ UpToDate(w) /\ PageSaves(w)

Spec == Init /\ [][Next]_vars

----------------------------------------------------------------------------
(* Every catalogue is a graph over the known ids, and the editors are in shape. *)
TypeOK ==
    /\ DOMAIN stored.nodes \subseteq Node /\ DOMAIN stored.entries \subseteq Entry
    /\ \A n \in DOMAIN stored.nodes : stored.nodes[n] \in Hop
    /\ stored.rev \in Nat /\ keys \subseteq Ref
    /\ \A w \in Window : ed[w].mode \in {"closed", "open", "saving"}

\* The hops a route can reach, told by the links alone.
Reach(s, e) ==
    LET r[k \in 0..Cardinality(DOMAIN s.nodes)] ==
            IF k = 0 THEN {s.entries[e].start}
            ELSE LET q == r[k-1] IN q \cup {s.nodes[n].next : n \in q \cap DOMAIN s.nodes}
    IN  r[Cardinality(DOMAIN s.nodes)] \ {None}

\* Whatever the windows do, in any order, every saved entry can be connected to:
\* its links lead through stored nodes to an end, with no more jump hosts than
\* allowed, and every key on the way is in the key store, for that node's endpoint.
RoutesUsable ==
    \A e \in DOMAIN stored.entries :
        /\ stored.entries[e].start # None
        /\ Reach(stored, e) \subseteq DOMAIN stored.nodes
        /\ \E n \in Reach(stored, e) : stored.nodes[n].next = None
        /\ Cardinality(Reach(stored, e)) <= MaxJumps + 1
        /\ \A n \in Reach(stored, e) : LET k == stored.nodes[n].key
                                       IN  k \in Ref => k \in keys /\ k.host = stored.nodes[n].host

Saves(w) == ed[w].mode = "saving" /\ stored' # stored /\ ed'[w] = Closed


\* A save takes nothing away that is in the store: neither an entry or node that
\* another window added meanwhile, nor one that the draft does not use.
NothingDropped ==
    [][\A w \in Window : Saves(w) =>
          /\ DOMAIN stored.entries \subseteq DOMAIN stored'.entries
          /\ DOMAIN stored.nodes \subseteq DOMAIN stored'.nodes]_vars

\* Choosing a repair leaves the routes of all other entries as they were when the
\* editor opened, and this entry with a prefix of the route that ran into the cycle.
RepairsOneEntry ==
    [][\A w \in Window : (Open(w) /\ ed[w].offered /\ ed'[w].mode = "open" /\ ~ ed'[w].offered
                          /\ ed'[w].draft # ed[w].draft) =>
          /\ \A e \in DOMAIN ed[w].base.entries \ {ed[w].entry} :
                ChainOf(ed'[w].draft, e) = ChainOf(ed[w].base, e)
          /\ IsPrefix(ChainOf(ed'[w].draft, ed[w].entry), ChainOf(ed[w].draft, ed[w].entry))]_vars
=============================================================================
