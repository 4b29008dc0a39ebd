---------------------------- MODULE SampleLists ----------------------------
(***************************************************************************)
(* The list sample (kernel_app/list/hlist.c), whose exit unlinks and frees *)
(* the nodes while it walks the list, and the red-black tree sample        *)
(* (kernel_app/rb_tree/hrbtree.c), whose exit asks rb_next of a node it    *)
(* has just erased, and frees nothing.                                     *)
(*                                                                         *)
(* Of <linux/rbtree.h> (external) there is as much as three nodes need: a  *)
(* chain of three is rotated about its middle, what is erased has at most  *)
(* one child, and an erased node keeps its own links.                      *)
(***************************************************************************)
EXTENDS Integers, SequencesExt

Size  == 3
Nodes == 0..Size - 1
Nil   == -1            \* the list head, and the NULL of the tree

VARIABLES
  (* hlist *)
  lmod, list, freed,
  aPerson, tmp,        \* the cursors of list_for_each_entry_safe
  stale,               \* a freed node was read, or an erased one erased
  (* hrbtree; the node for i has vcpu_time i *)
  tmod, root, left, right, parent, pnode,
  erased               \* nodes erased since insmod

listVars == <<lmod, list, freed, aPerson, tmp>>
treeVars == <<tmod, root, left, right, parent, pnode, erased>>
vars     == <<listVars, stale, treeVars>>

NoLinks == [n \in Nodes |-> Nil]

Init ==
  /\ lmod = "absent" /\ list = <<>> /\ freed = {} /\ stale = FALSE
  /\ aPerson = Nil /\ tmp = Nil
  /\ tmod = "absent" /\ root = Nil /\ pnode = Nil /\ erased = {}
  /\ left = NoLinks /\ right = NoLinks /\ parent = NoLinks

-----------------------------------------------------------------------------
(* hlist_init: kmalloc is not checked, and strcpy writes to what it gave.  *)
InsmodList ==
  /\ lmod = "absent" /\ lmod' = "init"
  /\ list' = <<>> /\ freed' = {}
  /\ UNCHANGED <<aPerson, tmp, stale, treeVars>>

AddPerson ==
  /\ lmod = "init" /\ Len(list) < Size
  /\ \/ list' = Append(list, Len(list)) /\ UNCHANGED lmod
     \/ lmod' = "oops" /\ UNCHANGED list
  /\ UNCHANGED <<freed, aPerson, tmp, stale, treeVars>>

ListReady ==
  /\ lmod = "init" /\ Len(list) = Size /\ lmod' = "live"
  /\ UNCHANGED <<list, freed, aPerson, tmp, stale, treeVars>>

(* hlist_exit: the successor of a node, or the head *)
Place(l, n) == CHOOSE k \in DOMAIN l : l[k] = n

Successor(l, n) ==
  IF n = Nil \/ Place(l, n) = Len(l) THEN Nil ELSE l[Place(l, n) + 1]

RmmodList ==
  /\ lmod = "live" /\ lmod' = "exit"
  /\ aPerson' = Head(list) /\ tmp' = Successor(list, aPerson')
  /\ UNCHANGED <<list, freed, stale, treeVars>>

(* One turn of the loop: list_del, kfree, and the step to the next node,   *)
(* which reads the links of the node tmp.                                  *)
DeletePerson ==
  /\ lmod = "exit" /\ aPerson # Nil
  /\ list' = RemoveAt(list, Place(list, aPerson))
  /\ freed' = freed \union {aPerson}
  /\ aPerson' = tmp /\ tmp' = Successor(list', tmp)
  /\ stale' = (stale \/ tmp \in freed')
  /\ UNCHANGED <<lmod, treeVars>>

ListGone ==
  /\ lmod = "exit" /\ aPerson = Nil /\ lmod' = "absent"
  /\ UNCHANGED <<list, freed, aPerson, tmp, stale, treeVars>>

-----------------------------------------------------------------------------
(* hrb_tree_init: node i is linked where the descent ends, larger times to *)
(* the left, and the tree is balanced.                                     *)
Descend(i) ==
  LET At[n \in Nodes] ==
        IF n < i THEN IF left[n] = Nil THEN n ELSE At[left[n]]
                 ELSE IF right[n] = Nil THEN n ELSE At[right[n]]
  IN  At[root]

(* rb_insert_color, for the third node of a chain leaning left *)
Chain(l, i) == root # Nil /\ l[root] # Nil /\ l[l[root]] = i

Link(i) ==
  LET p == Descend(i)
      l == IF p < i THEN [left EXCEPT ![p] = i] ELSE left
      r == IF p < i THEN right ELSE [right EXCEPT ![p] = i]
      middle == l[root]
  IN  IF Chain(l, i)
      THEN /\ root' = middle
           /\ left' = [l EXCEPT ![root] = Nil]
           /\ right' = [r EXCEPT ![middle] = root]
           /\ parent' = [parent EXCEPT ![i] = middle, ![root] = middle,
                                       ![middle] = Nil]
      ELSE /\ left' = l /\ right' = r /\ parent' = [parent EXCEPT ![i] = p]
           /\ UNCHANGED root

InsmodTree ==
  /\ tmod = "absent" /\ tmod' = "init"
  /\ root' = Nil /\ pnode' = 0 /\ erased' = {}
  /\ left' = NoLinks /\ right' = NoLinks /\ parent' = NoLinks
  /\ UNCHANGED <<listVars, stale>>

AddNode ==
  /\ tmod = "init" /\ pnode \in Nodes
  /\ \/ /\ pnode' = pnode + 1
        /\ IF root = Nil
           THEN root' = pnode /\ UNCHANGED <<left, right, parent>>
           ELSE Link(pnode)
        /\ UNCHANGED tmod
     \/ /\ tmod' = "oops"              \* no memory
        /\ UNCHANGED <<root, left, right, parent, pnode>>
  /\ UNCHANGED <<erased, listVars, stale>>

TreeReady ==
  /\ tmod = "init" /\ pnode = Size /\ tmod' = "live"
  /\ UNCHANGED <<root, left, right, parent, pnode, erased, listVars, stale>>

(* rb_first and rb_next, which follows the links of the node it is given *)
Leftmost[n \in Nodes] == IF left[n] = Nil THEN n ELSE Leftmost[left[n]]

Climb(r, n) ==
  LET Up[m \in Nodes] == IF parent[m] # Nil /\ r[parent[m]] = m
                         THEN Up[parent[m]] ELSE parent[m]
  IN  Up[n]

FromRoot == root                       \* mutant: the walk starts at the root
First    == Leftmost[root]

RmmodTree ==
  /\ tmod = "live" /\ tmod' = "exit"
  /\ pnode' = First
  /\ UNCHANGED <<root, left, right, parent, erased, listVars, stale>>

(* One turn of the loop: rb_erase of a node with at most one child, whose  *)
(* place the child takes; then rb_next of that node.                       *)
Child(n) == IF left[n] = Nil THEN right[n] ELSE left[n]

Replace(links, n) ==
  [m \in Nodes |-> IF parent[n] = m /\ links[m] = n THEN Child(n)
                                                     ELSE links[m]]

EraseNode ==
  /\ tmod = "exit" /\ pnode # Nil
  /\ root' = IF root = pnode THEN Child(pnode) ELSE root
  /\ left' = Replace(left, pnode) /\ right' = Replace(right, pnode)
  /\ parent' = [m \in Nodes |-> IF m = Child(pnode) THEN parent[pnode]
                                                    ELSE parent[m]]
  /\ erased' = erased \union {pnode}
  /\ stale' = (stale \/ pnode \in erased)
  /\ pnode' = IF right[pnode] # Nil THEN Leftmost[right[pnode]]
                                    ELSE Climb(right', pnode)
  /\ UNCHANGED <<tmod, listVars>>

TreeGone ==
  /\ tmod = "exit" /\ pnode = Nil /\ tmod' = "absent"
  /\ UNCHANGED <<root, left, right, parent, pnode, erased, listVars, stale>>

-----------------------------------------------------------------------------
ListStep == AddPerson \/ ListReady \/ DeletePerson \/ ListGone
TreeStep == AddNode \/ TreeReady \/ EraseNode \/ TreeGone

Next == \/ ListStep \/ InsmodList \/ RmmodList
        \/ TreeStep \/ InsmodTree \/ RmmodTree

(* insmod and rmmod run to their end. *)
Fairness == WF_vars(ListStep) /\ WF_vars(TreeStep)

States == {"absent", "init", "live", "exit", "oops"}

TypeOK ==
  /\ lmod \in States /\ tmod \in States
  /\ list \in SeqOf(Nodes, Size) /\ freed \subseteq Nodes
  /\ aPerson \in Nodes \union {Nil} /\ tmp \in Nodes \union {Nil}
  /\ stale \in BOOLEAN
  /\ root \in Nodes \union {Nil} /\ pnode \in Nil..Size
  /\ erased \subseteq Nodes
  /\ \A links \in {left, right, parent} :
       links \in [Nodes -> Nodes \union {Nil}]
  /\ tmod = "exit" /\ pnode # Nil => left[pnode] = Nil \/ right[pnode] = Nil

(* The walk of hlist_exit reads no node it has freed and frees them all;   *)
(* that of hrb_tree_exit erases each node once, although it steps on from  *)
(* nodes that are no longer in the tree.                                   *)
NoStaleUse ==
  /\ ~stale
  /\ lmod = "absent" => list = <<>>
  /\ tmod = "absent" => root = Nil /\ erased \in {{}, Nodes}

(* Both walks end. *)
ExitsReturn ==
  (lmod = "exit" ~> lmod = "absent") /\ (tmod = "exit" ~> tmod = "absent")
=============================================================================
