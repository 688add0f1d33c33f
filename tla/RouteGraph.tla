----------------------------- MODULE RouteGraph -----------------------------
(***************************************************************************)
(* The saved SSH routes (src/static/js/standterm-ssh-routes.js).  A        *)
(* catalogue holds nodes, each with the id of the next hop, and entries,   *)
(* each with the id of its first node: entries share the tails of their    *)
(* routes.  This module has the operators on a catalogue; RouteStore has   *)
(* the windows that edit and save one.                                     *)
(*                                                                         *)
(* A node is [next, host, key]; host stands for host, port, user name and  *)
(* host key alias together, Blank for fields that are not filled in.  The  *)
(* key is None for a password, Unset for "a browser key, not chosen yet",  *)
(* or a reference [owner, host]: a key of an older profile has that entry  *)
(* as owner, a credential of its own has none.                             *)
(***************************************************************************)
EXTENDS Naturals, FiniteSets, Sequences, TLC, SequencesExt

CONSTANTS Node,       \* node ids, numbers
          Entry,      \* entry ids, profiles and history alike
          Host,       \* filled-in endpoints
          MaxJumps,   \* jump hosts before the target, 3 in the code
          None, Blank, Unset

Ref == [owner : Entry \cup {None}, host : Host]

ASSUME GraphAssumption ==
    /\ Node \subseteq Nat /\ IsFiniteSet(Node) /\ MaxJumps \in Nat
    /\ None \notin Node \cup Host \cup Entry \cup Ref
    /\ Blank \notin Host /\ Unset # None

Fields == [host : Host \cup {Blank}, key : Ref \cup {None, Unset}]
Hop == [next : Node \cup {None}, host : Host \cup {Blank}, key : Ref \cup {None, Unset}]

FieldsOf(hop) == [host |-> hop.host, key |-> hop.key]
Place(x, seq) == CHOOSE i \in DOMAIN seq : seq[i] = x
Linked(fields, n) == [next |-> n, host |-> fields.host, key |-> fields.key]

\* f with what g has beside it, as f @@ g.
Added(f, g) == [x \in DOMAIN f \cup DOMAIN g |-> IF x \in DOMAIN f THEN f[x] ELSE g[x]]

----------------------------------------------------------------------------
(* The ids met by following the links from start, one more than there are nodes. *)
Walk(nodes, start) ==
    LET at[i \in 1..Cardinality(DOMAIN nodes) + 1] ==
            IF i = 1 THEN start
            ELSE LET n == at[i-1] IN IF n \in DOMAIN nodes THEN nodes[n].next ELSE None
    IN  [i \in DOMAIN at |-> at[i]]

(* The walk up to a link that ends the route, dangles, or leads back into it. *)
NewHop(nodes, at, i) == at[i] \in DOMAIN nodes /\ \A j \in 1..i-1 : at[j] # at[i]
Hops(nodes, at) == CHOOSE n \in 0..Cardinality(DOMAIN nodes) :
    ~ NewHop(nodes, at, n + 1) /\ \A i \in 1..n : NewHop(nodes, at, i)
Cut(nodes, at, n) ==
    [path  |-> SubSeq(at, 1, n),
     back  |-> at[n+1],
     error |-> IF at[n+1] \in DOMAIN nodes THEN "cycle"
               ELSE IF at[n+1] # None THEN "missing"
               ELSE IF n > MaxJumps + 1 THEN "depth"
               ELSE IF n = 0 THEN "empty" ELSE "none"]
ResolveWalk(nodes, at) == Cut(nodes, at, Hops(nodes, at))
Resolve(nodes, start) == ResolveWalk(nodes, Walk(nodes, start))

Route(s, e) == Resolve(s.nodes, s.entries[e].start)

(* The fields of the hops of a path, in order. *)
Chain(s, path) == [i \in DOMAIN path |-> FieldsOf(s.nodes[path[i]])]
ChainOf(s, e) == Chain(s, Route(s, e).path)

References(s, n) == {e \in DOMAIN s.entries : n \in Range(Route(s, e).path)}

(* The k smallest unused ids.  The code draws random ids; a draft that is   *)
(* not saved never meets another one, so which ids it takes is immaterial.  *)
Fresh(nodes, k) ==
    LET free == Node \ DOMAIN nodes
    IN  [i \in 1..k |-> CHOOSE n \in free : Cardinality({m \in free : m < n}) = i - 1]
Room(nodes, k) == Cardinality(Node \ DOMAIN nodes) >= k

(* New nodes with these fields, each leading to the next. *)
CopyNodes(nodes, chain, ids) ==
    LET copy(i) == Linked(chain[i], IF i < Len(ids) THEN ids[i+1] ELSE None)
    IN  Added(nodes, [n \in Range(ids) |-> copy(Place(n, ids))])

(* Entry e goes through a copy of a path from now on. *)
CopyPath(s, e, chain) ==
    LET ids == Fresh(s.nodes, Len(chain))
    IN  [s EXCEPT !.nodes = CopyNodes(@, chain, ids), !.entries[e].start = ids[1]]

(* Copies of the hops that lead to the replaced one, linked like the originals. *)
CopyPrefix(s, e, prefix, hops, ids, loop) ==
    LET moved == [n \in Range(prefix) |-> ids[Place(n, prefix)]]
        link(i) == LET n == hops[i].next
                   IN  IF n \in DOMAIN moved /\ (i < Len(ids) \/ loop) THEN moved[n] ELSE n
        copy(i) == [hops[i] EXCEPT !.next = link(i)]
    IN  [s EXCEPT !.nodes = Added(@, [n \in Range(ids) |-> copy(Place(n, ids))]),
                  !.entries[e].start = ids[1]]


(* One hop of an entry's route is replaced: for every reference, or for this *)
(* entry alone, which then gets its own copies of the hops before it (of the *)
(* whole loop, if there is one).                                             *)
ReplaceHop(s, e, r, index, scope, hop) ==
    LET prefix == IF r.error = "cycle" THEN r.path ELSE SubSeq(r.path, 1, index)
    IN  IF scope = "all"
        THEN [s EXCEPT !.nodes[r.path[index]] = hop]
        ELSE CopyPrefix(s, e, prefix,
                        [i \in DOMAIN prefix |-> IF i = index THEN hop ELSE s.nodes[prefix[i]]],
                        Fresh(s.nodes, Len(prefix)), r.error = "cycle")
ReplaceDraftNode(s, e, index, scope, hop) == ReplaceHop(s, e, Route(s, e), index, scope, hop)

(* What may be kept of a route that runs into a cycle. *)
LoopCuts(r) == IF r.error # "cycle" THEN {}
               ELSE {SubSeq(r.path, 1, Place(r.back, r.path)), r.path}
RepairCandidates(s, e) ==
    {p \in LoopCuts(Route(s, e)) : Len(p) <= MaxJumps + 1}

(* Nodes made by this draft that nothing uses are dropped; the nodes it started from stay. *)
DiscardUnused(s, base) ==
    LET roots == (DOMAIN base.nodes \cup {s.entries[e].start : e \in DOMAIN s.entries})
        kept == UNION {Range(Walk(s.nodes, n)) : n \in roots}
    IN  [s EXCEPT !.nodes = [n \in kept \cap DOMAIN s.nodes |-> s.nodes[n]]]

PublicNode(fields) == /\ fields.host # Blank
                      /\ fields.key \in Ref => fields.key.host = fields.host

(* The owner of a profile's key still has it. *)
OwnerHasKey(s, key) == key \in Ref /\ key.owner # None =>
    key.owner \in DOMAIN s.entries /\ s.entries[key.owner].key = key

\* Fault: whether the owner of a key still has it is not checked.
Faulty_Valid(s) ==
    /\ \A n \in DOMAIN s.nodes : PublicNode(s.nodes[n])
                              /\ s.nodes[n].next \in DOMAIN s.nodes \cup {None}
    /\ \A e \in DOMAIN s.entries : Route(s, e).error = "none"

Valid(s) ==
    /\ \A n \in DOMAIN s.nodes : PublicNode(s.nodes[n])
                              /\ s.nodes[n].next \in DOMAIN s.nodes \cup {None}
    /\ \A e \in DOMAIN s.entries :
          /\ Route(s, e).error = "none"
          /\ \A n \in Range(Route(s, e).path) : OwnerHasKey(s, s.nodes[n].key)

(* The portable form: reachable nodes, no key references, no keys. *)
ExportState(s) ==
    LET used == {n \in DOMAIN s.nodes : References(s, n) # {}}
        bare(key) == IF key = None THEN None ELSE Unset
    IN  [s EXCEPT !.nodes = [n \in used |-> [s.nodes[n] EXCEPT !.key = bare(@)]],
                  !.entries = [e \in DOMAIN s.entries |-> [s.entries[e] EXCEPT !.key = None]]]

(* The entries of a portable catalogue join the current ones under new ids. *)
ImportState(s, incoming, names) ==
    LET source == ExportState(incoming)
        old == SetToSeq(DOMAIN source.nodes)
        ids == Fresh(s.nodes, Len(old))
        new(n) == IF n = None THEN None ELSE ids[Place(n, old)]
        was(n) == source.nodes[old[Place(n, ids)]]
        entry(e) == [source.entries[names[e]] EXCEPT !.start = new(@)]
    IN  [s EXCEPT !.nodes = Added(@, [n \in Range(ids) |-> [was(n) EXCEPT !.next = new(@)]]),
                  !.entries = Added(@, [e \in DOMAIN names |-> entry(e)])]
=============================================================================
