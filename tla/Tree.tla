-------------------------------- MODULE Tree --------------------------------
(***************************************************************************)
(* tree.c: the gateway's picture of the routing tree, node structs from    *)
(* malloc() linked by firstchild and nextsibling, and found by identity in *)
(* nodes[].  The calls run one at a time.  add_node(), change_node_metric() *)
(* and tree_init() are single steps; the search and clear_tree() take a    *)
(* step for each turn of their loops.  A struct that is freed keeps its    *)
(* contents, which clear_tree() reads.  After a second free() of a struct  *)
(* nothing is said of what happens: the program is at "undefined".         *)
(* Left out: bfs_count, of which only visited or not matters, advertised[] *)
(* and change_node_parent(), which are never used, and printing.           *)
(***************************************************************************)
EXTENDS SearchQueue

CONSTANTS
  MaxId,      \* identities are 0..MaxId; 127
  MaxStructs, \* bound: node structs that malloc() has, never all in use
  Metrics,    \* the metrics a caller gives
  Calls       \* bound: calls of the functions of tree.h

Id  == 0..MaxId
Ptr == 1..MaxStructs

ASSUME TreeAssumption ==
  /\ MaxId \in Nat
  /\ MaxStructs \in Nat \ {0}
  /\ Metrics \subseteq Int
  /\ Calls \in Nat

VARIABLES
  struct,      \* the node structs
  allocated,   \* those that malloc() has returned and free() not had
  nodes,       \* nodes[]
  calculated,  \* calculated[]
  visited,     \* the identities with a mark in visited[]
  queue,       \* the queue of the search
  running,     \* the function that is running, "caller" for none
  at,          \* its variables: k of the outer loop, id, c and kids of bfs()
  stack,       \* the activations of dfs_clear(), the innermost first
  left         \* how many calls there may still be

vars == <<struct, allocated, nodes, calculated, visited, queue, running, at,
          stack, left>>

NewStruct(id, metric, firstchild) ==
  [id |-> id, metric |-> metric, firstchild |-> firstchild, nextsibling |-> NULL]

\* malloc() of a node struct: any free one will do, this takes the first.
Fresh(used) == CHOOSE p \in Ptr \ used : \A o \in Ptr \ used : p <= o

Start == [k |-> 0, id |-> 0, c |-> NULL, kids |-> 0]

Init ==
  LET r == Fresh({}) IN
  /\ struct = [p \in Ptr |-> NewStruct(0, -1, NULL)]
  /\ allocated = {r}
  /\ nodes = [i \in Id |-> IF i = 0 THEN r ELSE NULL]
  /\ calculated = [i \in Id |-> -1]
  /\ visited = {}
  /\ queue \in {Empty(placement) : placement \in Placements}
  /\ running = "caller"
  /\ at = Start
  /\ stack = <<>>
  /\ left = Calls

Call ==
  /\ running = "caller"
  /\ left > 0
  /\ left' = left - 1

-----------------------------------------------------------------------------
(* The calls that are a single step.                                       *)

\* What was there before is not freed.
tree_init ==
  LET r == Fresh(allocated) IN
  /\ Call
  /\ Ptr \ allocated # {}
  /\ struct' = [struct EXCEPT ![r] = NewStruct(0, -1, NULL)]
  /\ allocated' = allocated \cup {r}
  /\ nodes' = [i \in Id |-> IF i = 0 THEN r ELSE NULL]
  /\ calculated' = [i \in Id |-> -1]
  /\ visited' = {}
  /\ UNCHANGED <<queue, running, at, stack>>

change_node_metric(id, metric) ==
  /\ Call
  /\ nodes[id] # NULL
  /\ struct' = [struct EXCEPT ![nodes[id]].metric = metric]
  /\ UNCHANGED <<allocated, nodes, calculated, visited, queue, running, at, stack>>

\* The structs of a list of siblings, from c on.
Siblings(s, c) ==
  LET list[p \in Ptr] ==
        <<p>> \o IF s[p].nextsibling = NULL THEN <<>> ELSE list[s[p].nextsibling]
  IN  IF c = NULL THEN <<>> ELSE list[c]

\* The structs under a node.
ChildrenOf(s, nds, id) ==
  IF nds[id] = NULL THEN <<>> ELSE Siblings(s, s[nds[id]].firstchild)

\* Where the new struct n is linked: the structs after the call, if the parent
\* is known.
Link(parent, n) ==
  LET p    == nodes[parent]
      kids == ChildrenOf(struct, nodes, parent)
  IN  IF struct[p].firstchild = NULL
      THEN [struct EXCEPT ![p].firstchild = n]
      ELSE [struct EXCEPT ![kids[Len(kids)]].nextsibling = n]

\* The struct a node has when it is added.  Mutant: it keeps its children.
KeepChildren(id, metric) ==
  NewStruct(id, metric,
            IF nodes[id] = NULL THEN NULL ELSE struct[nodes[id]].firstchild)

Added(id, metric) == NewStruct(id, metric, NULL)

\* A parent that is not known becomes a placeholder with the new node as its
\* child.  A caller does not add a node under itself.
add_node(parent, metric, id) ==
  LET n == Fresh(allocated)
      p == Fresh(allocated \cup {n})
  IN
  /\ Call
  /\ parent # id
  /\ Ptr \ allocated # {}
  /\ IF nodes[parent] = NULL
     THEN /\ Ptr \ (allocated \cup {n}) # {}
          /\ struct' = [struct EXCEPT ![n] = Added(id, metric),
                                      ![p] = NewStruct(parent, -1, n)]
          /\ allocated' = allocated \cup {n, p}
          /\ nodes' = [nodes EXCEPT ![id] = n, ![parent] = p]
     ELSE /\ struct' = [Link(parent, n) EXCEPT ![n] = Added(id, metric)]
          /\ allocated' = allocated \cup {n}
          /\ nodes' = [nodes EXCEPT ![id] = n]
  /\ UNCHANGED <<calculated, visited, queue, running, at, stack>>

-----------------------------------------------------------------------------
(* The breadth-first search.                                               *)

tree_bfs ==
  /\ Call
  /\ running' = "tree_bfs"
  /\ at' = Start
  /\ visited' = {}
  /\ UNCHANGED <<struct, allocated, nodes, calculated, queue, stack>>

\* A turn of the loop of tree_bfs(): a search from node k if it is not visited.
Search ==
  /\ running = "tree_bfs" /\ at.k <= MaxId
  /\ IF nodes[at.k] # NULL /\ at.k \notin visited
     THEN /\ running' = "bfs"
          /\ queue' = queue_push(queue_init(queue), nodes[at.k])
          /\ visited' = visited \cup {at.k}
          /\ UNCHANGED at
     ELSE /\ at' = [at EXCEPT !.k = @ + 1]
          /\ UNCHANGED <<running, queue, visited>>
  /\ UNCHANGED <<struct, allocated, nodes, calculated, stack, left>>

\* The head of the outer loop of bfs().
Dequeue ==
  /\ running = "bfs"
  /\ IF queue.elements > 0
     THEN LET id == struct[First(queue)].id IN
          /\ running' = "children"
          /\ at' = [at EXCEPT !.id = id, !.c = struct[nodes[id]].firstchild, !.kids = 0]
          /\ queue' = queue_dequeue(queue)
     ELSE /\ running' = "tree_bfs"
          /\ at' = [at EXCEPT !.k = @ + 1]
          /\ UNCHANGED queue
  /\ UNCHANGED <<struct, allocated, nodes, calculated, visited, stack, left>>

\* The condition of the inner loop ends in a semicolon: a child is counted and
\* queued whether or not it was visited.  Mutant: it is counted as it reads.
KidsUnvisited(c) == IF struct[c].id \in visited THEN at.kids ELSE at.kids + 1
Kids(c) == at.kids + 1

\* A turn of the inner loop of bfs().
Child ==
  /\ running = "children" /\ at.c # NULL
  /\ queue.free # <<>>
  /\ visited' = visited \cup {struct[at.c].id}
  /\ queue' = queue_push(queue, at.c)
  /\ at' = [at EXCEPT !.kids = Kids(at.c), !.c = struct[at.c].nextsibling]
  /\ UNCHANGED <<struct, allocated, nodes, calculated, running, stack, left>>

Calculate ==
  /\ running = "children" /\ at.c = NULL
  /\ calculated' = [calculated EXCEPT ![at.id] = at.kids]
  /\ running' = "bfs"
  /\ UNCHANGED <<struct, allocated, nodes, visited, queue, at, stack, left>>

-----------------------------------------------------------------------------
(* Clearing the tree.                                                      *)

clear_tree ==
  /\ Call
  /\ running' = "clear_tree"
  /\ at' = Start
  /\ visited' = {}
  /\ UNCHANGED <<struct, allocated, nodes, calculated, queue, stack>>

\* An activation of dfs_clear() for struct n, and its loop variable.
Activation(n) == [n |-> n, id |-> struct[n].id, c |-> struct[n].firstchild]

\* A turn of the loop of clear_tree().
ClearFrom ==
  /\ running = "clear_tree" /\ at.k <= MaxId
  /\ IF nodes[at.k] # NULL /\ at.k \notin visited
     THEN /\ running' = "dfs_clear"
          /\ stack' = <<Activation(nodes[at.k])>>
          /\ visited' = visited \cup {at.k}
          /\ UNCHANGED at
     ELSE /\ at' = [at EXCEPT !.k = @ + 1]
          /\ UNCHANGED <<running, stack, visited>>
  /\ UNCHANGED <<struct, allocated, nodes, calculated, queue, left>>

\* A turn of the loop of dfs_clear(): the condition has the same semicolon.
ClearChild ==
  /\ running = "dfs_clear" /\ Head(stack).c # NULL
  /\ LET c == Head(stack).c IN
     /\ visited' = visited \cup {struct[c].id}
     /\ stack' = <<Activation(c)>> \o stack
  /\ UNCHANGED <<struct, allocated, nodes, calculated, queue, running, at, left>>

\* dfs_clear() frees its struct and returns; its caller then reads the sibling
\* from the struct that was freed.  Mutant: nodes[] keeps the pointer.
KeepPointer(id) == nodes
Unlisted(id) == [nodes EXCEPT ![id] = NULL]

FreeNode ==
  /\ running = "dfs_clear" /\ Head(stack).c = NULL
  /\ LET n    == Head(stack).n
         rest == Tail(stack)
     IN  IF n \notin allocated
         THEN running' = "undefined" /\ UNCHANGED <<allocated, nodes, stack, at>>
         ELSE /\ allocated' = allocated \ {n}
              /\ nodes' = Unlisted(Head(stack).id)
              /\ IF rest = <<>>
                 THEN /\ running' = "clear_tree"
                      /\ stack' = <<>>
                      /\ at' = [at EXCEPT !.k = @ + 1]
                 ELSE /\ stack' = [rest EXCEPT ![1].c = struct[n].nextsibling]
                      /\ UNCHANGED <<running, at>>
  /\ UNCHANGED <<struct, calculated, visited, queue, left>>

\* The outer loop of tree_bfs() or clear_tree() is done.
Return ==
  /\ running \in {"tree_bfs", "clear_tree"} /\ at.k > MaxId
  /\ running' = "caller"
  /\ at' = Start
  /\ UNCHANGED <<struct, allocated, nodes, calculated, visited, queue, stack, left>>

-----------------------------------------------------------------------------
Next ==
  \/ tree_init
  \/ \E id \in Id, metric \in Metrics : change_node_metric(id, metric)
  \/ \E parent, id \in Id, metric \in Metrics : add_node(parent, metric, id)
  \/ tree_bfs \/ Search \/ Dequeue \/ Child \/ Calculate
  \/ clear_tree \/ ClearFrom \/ ClearChild \/ FreeNode
  \/ Return

Spec == Init /\ [][Next]_vars

\* A function that was called goes on.
LiveSpec == Spec /\ WF_vars(running # "caller" /\ Next)

-----------------------------------------------------------------------------
\* Types; and nodes[] finds only structs that are not freed, each under its own
\* identity, so that bfs() and add_node() may follow it (tree.c:53, 207).
TypeOK ==
  /\ \A i \in Id : nodes[i] # NULL => nodes[i] \in allocated /\ struct[nodes[i]].id = i
  /\ struct \in [Ptr -> [id : Id, metric : Int, firstchild : Ptr \cup {NULL},
                         nextsibling : Ptr \cup {NULL}]]
  /\ allocated \subseteq Ptr
  /\ nodes \in [Id -> Ptr \cup {NULL}]
  /\ calculated \in [Id -> Int]
  /\ visited \subseteq Id
  /\ queue.elements \in 0..MaxItems
  /\ running \in {"caller", "tree_bfs", "bfs", "children", "clear_tree",
                  "dfs_clear", "undefined"}

\* The items from head on are the ones that are not free, and the last is the
\* tail: a push that writes to a freed tail (queue.c:37) and an item that is
\* its own successor lose no item and bring none back.
QueueIsList ==
  LET place[j \in 1..queue.elements] ==
        IF j = 1 THEN queue.head ELSE queue.next[place[j - 1]]
  IN  running \in {"bfs", "children"} /\ queue.elements > 0
        => /\ place[queue.elements] = queue.tail
           /\ {place[j] : j \in 1..queue.elements}
                = Item \ {queue.free[j] : j \in DOMAIN queue.free}

\* The identities of the nodes under a node.
Children(id) ==
  LET kids == ChildrenOf(struct, nodes, id)
  IN  [j \in DOMAIN kids |-> struct[kids[j]].id]

F == INSTANCE Forest WITH
       known    <- {i \in Id : nodes[i] # NULL},
       children <- [i \in Id |-> Children(i)],
       metric   <- [i \in Id |-> IF nodes[i] = NULL THEN -1
                                 ELSE struct[nodes[i]].metric],
       counts   <- calculated

\* The tree is the forest that the calls describe, and every count a search
\* writes is right, also for a child that was searched before its parent was
\* (tree.c:57).
ForestSpec == F!Spec

\* When a search returns, it has counted every node, and when clear_tree()
\* returns there is none.
CallsComplete ==
  [][running' = "caller" =>
       /\ running = "tree_bfs" =>
            \A i \in Id : nodes[i] # NULL => calculated[i] = Len(Children(i))
       /\ running = "clear_tree" => \A i \in Id : nodes[i] = NULL]_vars

\* A search and a clear_tree() end, although no test of visited[] stops them.
CallsEnd == running # "caller" ~> running \in {"caller", "undefined"}

-----------------------------------------------------------------------------
\* "Clears the tree of all nodes and free()'s the space created for the node
\* structs" (tree.h:91): no struct is freed a second time.
FreesOnce == running # "undefined"
=============================================================================
