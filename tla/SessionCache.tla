---------------------------- MODULE SessionCache ----------------------------
(***************************************************************************)
(* The session cache of the TLS server (src/src/bearssl/ssl_lru.c): a      *)
(* block of memory cut into entries, threaded by a doubly-linked list in   *)
(* order of use and by a binary search tree on the masked session          *)
(* identifier.  Addresses are offsets in the block.  An identifier is      *)
(* masked with a MAC under a key drawn at the first save, so that the      *)
(* order in the tree is one that nobody chose.                             *)
(***************************************************************************)
EXTENDS Integers, Sequences

CONSTANTS Sessions,   \* what a server saves: records [id, secret]
          Forgotten,  \* identifiers that the application may ask to forget
          Masks,      \* functions from identifiers to numbers, one per MAC key
          StoreLens,  \* lengths of the memory block
          EntryLen    \* LRU_ENTRY_LEN

ASSUME CacheAssumption ==
  /\ StoreLens \subseteq Nat
  /\ EntryLen \in Nat \ {0}
  /\ Forgotten \subseteq {s.id : s \in Sessions}
  /\ \A s \in Sessions : s.secret # 0 /\ \A m \in Masks : m[s.id] \in Nat

VARIABLES store,      \* per address, masked identifier, secret, and whether enabled
          prev, next, \* the list, as fields of the entries
          left, right,\* the tree, as fields of the entries
          head, tail, root,
          store_len, store_ptr,  \* its length, and where its unused part begins
          init_done, index_key,
          loaded      \* what the last load returned

list == <<head, tail, prev, next>>
tree == <<root, left, right>>
cacheVars == <<store, list, tree, store_len, store_ptr, init_done, index_key, loaded>>

Ids == {s.id : s \in Sessions}
Slots == store_len \div EntryLen
Addresses == {n * EntryLen : n \in 0 .. Slots - 1}
NoAddress == -1  \* ADDR_NULL
NotFound == 0

EmptyEntry == [key |-> 0, secret |-> 0, on |-> FALSE]

-----------------------------------------------------------------------------
(* The tree, as a value: t.root, t.left and t.right.  A link is the field  *)
(* that points to a node: <<"root">>, or one side of another node.         *)

Tree == [root |-> root, left |-> left, right |-> right]
RootLink == <<"root">>

SetLink(t, link, x) ==
  IF link = RootLink
  THEN [t EXCEPT !.root = x]
  ELSE [t EXCEPT ![link[1]][link[2]] = x]

(* find_node: the node with this key or NoAddress, and the link last followed. *)
(* A path visits no entry twice, so that a loop over nodes has no more turns   *)
(* than there are entries.                                                     *)
Nearer(t, key, place) ==
  LET x == place.node
      side == IF key < store[x].key THEN "left" ELSE "right"
  IN  IF x = NoAddress \/ store[x].key = key THEN place
      ELSE [node |-> t[side][x], link |-> <<side, x>>]

FindNode(t, key) ==
  LET at[n \in 0 .. Slots] ==
        IF n = 0 THEN [node |-> t.root, link |-> RootLink] ELSE Nearer(t, key, at[n - 1])
  IN  at[Slots]

(* The last node reached from a place by following one side only.          *)
Further(t, side, place) ==
  IF t[side][place.node] = NoAddress THEN place
  ELSE [node |-> t[side][place.node], link |-> <<side, place.node>>]

Furthest(t, side, place) ==
  LET at[n \in 0 .. Slots] == IF n = 0 THEN place ELSE Further(t, side, at[n - 1])
  IN  at[Slots]

(* find_replacement_node: the neighbour in order that takes the place of x *)
FindReplacementNode(t, x) ==
  IF t.left[x] # NoAddress THEN Furthest(t, "right", [node |-> t.left[x], link |-> <<"left", x>>])
  ELSE IF t.right[x] # NoAddress THEN Furthest(t, "left", [node |-> t.right[x], link |-> <<"right", x>>])
  ELSE [node |-> NoAddress, link |-> RootLink]

Adopt(t, y, x) == [t EXCEPT !.left[y] = t.left[x], !.right[y] = t.right[x]]

RemoveNode(t, x) ==
  LET above == FindNode(t, store[x].key).link
      y == FindReplacementNode(t, x)
      below == IF t.left[y.node] # NoAddress THEN t.left[y.node] ELSE t.right[y.node]
  IN  IF y.node = NoAddress
      THEN SetLink(t, above, NoAddress)
      ELSE Adopt(SetLink(SetLink(t, y.link, below), above, y.node), y.node, x)

InsertNode(t, key, x) ==
  LET linked == SetLink(t, FindNode(t, key).link, x)
  IN  [linked EXCEPT !.left[x] = NoAddress, !.right[x] = NoAddress]

-----------------------------------------------------------------------------
(* The list, as a value.                                                   *)

List == [head |-> head, tail |-> tail, prev |-> prev, next |-> next]

DropTail(l) ==
  LET t == l.prev[l.tail]
  IN  IF t = NoAddress
      THEN [l EXCEPT !.tail = NoAddress, !.head = NoAddress]
      ELSE [l EXCEPT !.tail = t, !.next[t] = NoAddress]

PushHead(l, x) ==
  LET linked == IF l.head = NoAddress THEN [l EXCEPT !.tail = x] ELSE [l EXCEPT !.prev[l.head] = x]
  IN  [linked EXCEPT !.prev[x] = NoAddress, !.next[x] = l.head, !.head = x]

(* An entry that was loaded becomes the last used one.                     *)
MoveToHead(l, x) ==
  LET p == l.prev[x]
      n == l.next[x]
      cut == IF n = NoAddress
             THEN [l EXCEPT !.next[p] = n, !.tail = p]
             ELSE [l EXCEPT !.next[p] = n, !.prev[n] = p]
  IN  IF x = l.head THEN l
      ELSE [cut EXCEPT !.prev[l.head] = x, !.next[x] = l.head, !.prev[x] = NoAddress, !.head = x]

BecomesList(l) == head' = l.head /\ tail' = l.tail /\ prev' = l.prev /\ next' = l.next
BecomesTree(t) == root' = t.root /\ left' = t.left /\ right' = t.right

-----------------------------------------------------------------------------
(* lru_save: the key is drawn first, if need be.                           *)

IndexKeyDrawn(m) ==
  /\ IF init_done THEN m = index_key ELSE m \in Masks
  /\ init_done' = TRUE /\ index_key' = m

Full == store_ptr > store_len - EntryLen

Enter(key, secret, x, t, l) ==
  /\ BecomesTree(InsertNode(t, key, x))
  /\ BecomesList(PushHead(l, x))
  /\ store' = [store EXCEPT ![x] = [key |-> key, secret |-> secret, on |-> TRUE]]

(* Mutant: the place of the new node is looked up before the old one is    *)
(* removed, which may change the tree around it.                           *)
SaveEvictingPlacedEarly(key, secret) ==
  /\ Full
  /\ LET link == FindNode(Tree, key).link
         t == RemoveNode(Tree, tail)
         placed == [SetLink(t, link, tail) EXCEPT !.left[tail] = NoAddress, !.right[tail] = NoAddress]
     IN  /\ BecomesTree(placed)
         /\ BecomesList(PushHead(DropTail(List), tail))
         /\ store' = [store EXCEPT ![tail] = [key |-> key, secret |-> secret, on |-> TRUE]]
  /\ UNCHANGED store_ptr

SaveEvicting(key, secret) ==
  /\ Full
  /\ Enter(key, secret, tail, RemoveNode(Tree, tail), DropTail(List))
  /\ UNCHANGED store_ptr

SaveAllocating(key, secret) ==
  /\ ~Full
  /\ Enter(key, secret, store_ptr, Tree, List)
  /\ store_ptr' = store_ptr + EntryLen

lru_save(s) ==
  /\ loaded' = NotFound /\ UNCHANGED store_len
  /\ \/ store_len < EntryLen /\ UNCHANGED <<store, list, tree, store_ptr, init_done, index_key>>
     \/ /\ store_len >= EntryLen
        /\ \E m \in Masks :
             /\ IndexKeyDrawn(m)
             /\ LET key == m[s.id] IN
                IF FindNode(Tree, key).node # NoAddress
                THEN UNCHANGED <<store, list, tree, store_ptr>>
                ELSE SaveEvicting(key, s.secret) \/ SaveAllocating(key, s.secret)

(* Mutant: a disabled entry is used again when it is asked for.            *)
lru_load_revives(id) ==
  /\ LET x == FindNode(Tree, index_key[id]).node IN
     IF init_done /\ x # NoAddress
     THEN loaded' = store[x].secret /\ BecomesList(MoveToHead(List, x))
     ELSE loaded' = NotFound /\ UNCHANGED list
  /\ UNCHANGED <<store, tree, store_len, store_ptr, init_done, index_key>>

lru_load(id) ==
  /\ LET x == FindNode(Tree, index_key[id]).node IN
     IF init_done /\ x # NoAddress /\ store[x].on
     THEN loaded' = store[x].secret /\ BecomesList(MoveToHead(List, x))
     ELSE loaded' = NotFound /\ UNCHANGED list
  /\ UNCHANGED <<store, tree, store_len, store_ptr, init_done, index_key>>

lru_forget(id) ==
  /\ LET x == FindNode(Tree, index_key[id]).node IN
     store' = IF init_done /\ x # NoAddress THEN [store EXCEPT ![x].on = FALSE] ELSE store
  /\ loaded' = NotFound
  /\ UNCHANGED <<list, tree, store_len, store_ptr, init_done, index_key>>

(* br_ssl_session_cache_lru_init                                           *)
CacheInit ==
  /\ store_len \in StoreLens
  /\ store = [a \in Addresses |-> EmptyEntry]
  /\ prev = [a \in Addresses |-> NoAddress] /\ next = [a \in Addresses |-> NoAddress]
  /\ left = [a \in Addresses |-> NoAddress] /\ right = [a \in Addresses |-> NoAddress]
  /\ head = NoAddress /\ tail = NoAddress /\ root = NoAddress
  /\ store_ptr = 0 /\ init_done = FALSE
  /\ index_key \in Masks
  /\ loaded = NotFound

CacheNext ==
  \/ \E s \in Sessions : lru_save(s)
  \/ \E id \in Ids : lru_load(id)
  \/ \E id \in Forgotten : lru_forget(id)

CacheSpec == CacheInit /\ [][CacheNext]_cacheVars

-----------------------------------------------------------------------------
(* The properties of the session cache.                                    *)

InUse == {a \in Addresses : a < store_ptr}

MaskedIds == {m[id] : m \in Masks, id \in Ids}

(* Each entry is found under its key, the tree has no other node, and a    *)
(* search for a key that is not there ends.                                *)
TreeIndexesEntries ==
  /\ \A a \in InUse : FindNode(Tree, store[a].key).node = a
  /\ \A a \in InUse : \A b \in {left[a], right[a]} \ {NoAddress} :
       FindNode(Tree, store[b].key).link
         \in {<<"left", a>>, <<"right", a>>}
  /\ \A key \in MaskedIds \ {store[a].key : a \in InUse} : FindNode(Tree, key).node = NoAddress

(* The list, followed from either end, visits every entry once.            *)
Follow(x, step) ==
  LET longer == [trail \in Seq(Int) |->
                   LET y == IF trail = <<>> THEN x ELSE step[trail[Len(trail)]]
                   IN  IF y = NoAddress THEN trail ELSE Append(trail, y)]
      trails[n \in 0 .. Slots] == IF n = 0 THEN <<>> ELSE longer[trails[n - 1]]
  IN  trails[Slots]

ListHoldsEntries ==
  LET there == Follow(head, next)
      back == Follow(tail, prev)
  IN  /\ {there[i] : i \in DOMAIN there} = InUse
      /\ \A i, j \in DOMAIN there : there[i] = there[j] => i = j
      /\ Len(back) = Len(there)
      /\ \A i \in DOMAIN there : back[Len(there) + 1 - i] = there[i]
      /\ InUse # {} => next[tail] = NoAddress /\ prev[head] = NoAddress

(* "all left descendants of a node have a lower session ID [...], while    *)
(* all right descendants have a higher session ID" (ssl_lru.c): whatever   *)
(* was evicted, saved and used, the tree and the list of the cache have    *)
(* the same entries.                                                       *)
EntriesLinked == TreeIndexesEntries /\ ListHoldsEntries

(* The cache is a map of the most recently used sessions.                  *)
Recent ==
  LET there == Follow(head, next)
  IN  [i \in DOMAIN there |-> store[there[i]]]

Lru == INSTANCE LruMap WITH capacity <- Slots, recent <- Recent, answer <- loaded

SavedSecrets == {s.secret : s \in Sessions}

ImplementsLruMap ==
  Lru!LruInit /\ [][UNCHANGED cacheVars \/ Lru!LruNext(MaskedIds, SavedSecrets)]_(Lru!lruMap)
=============================================================================
