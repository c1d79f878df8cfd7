---------------------------- MODULE MerkleProofs ----------------------------
(***************************************************************************)
(* The trees behind every vote: ncn/merkle-tree builds one level by level  *)
(* and walks it for a leaf's proof, ncn-snapshot's merkle_helper hashes a  *)
(* leaf up along a proof and compares the result with the root.  Hashing   *)
(* is free of collisions: a hash is what was hashed, under its prefix.     *)
(* Siblings are sorted before they are hashed, so the hash of an inner     *)
(* node is the set of its children.                                        *)
(***************************************************************************)
EXTENDS Integers, Sequences, FiniteSets, SequencesExt

CONSTANTS
    Trees,   \* the trees, as the sequences of their leaves
    Items    \* leaves that may be claimed

VARIABLES
    items,    \* the leaves of the tree
    levels,   \* its nodes, level by level
    index,    \* the leaf whose proof is asked for
    level, nodeIndex, path,   \* of find_path
    leaf,     \* the leaf that is claimed
    altered,  \* the proof was changed on its way
    node, used,   \* of verify_helper
    pc

vars == <<items, levels, index, level, nodeIndex, path, leaf, altered, node, used, pc>>

\* validate_snapshot refuses a file that lists an account twice.
MerkleAssumption == Trees \subseteq Seq(Items) /\ \A t \in Trees : IsInjective(t)

hash_leaf(x) == [leaf |-> x]

\* Slip: the children are not sorted where the tree is built.
hash_in_order(l, r) == [ordered |-> <<l, r>>]

hash_intermediate(l, r) == [children |-> {l, r}]

\* The hash that new pushes for a pair of nodes.
Parent(l, r) == hash_intermediate(l, r)

\* Indexes count from 0 in the code and here.
At(nodes, i) == nodes[i + 1]

Init ==
    /\ items \in Trees
    /\ index \in 0 .. Len(items)
    /\ leaf \in Items
    /\ levels = IF items = <<>> THEN <<>> ELSE <<[i \in DOMAIN items |-> hash_leaf(items[i])]>>
    /\ level = 0 /\ nodeIndex = 0 /\ path = <<>>
    /\ altered = FALSE
    /\ node = hash_leaf(leaf) /\ used = 0
    /\ pc = "building"

Top == levels[Len(levels)]

\* None for an empty tree.
get_root == IF levels = <<>> THEN <<>> ELSE Top[1]

\* The last node of a level of odd length is its own sibling.
NextLevel ==
    [i \in 1 .. (Len(Top) + 1) \div 2 |->
        LET l == 2 * (i - 1)
            r == IF l + 1 < Len(Top) THEN l + 1 ELSE l
        IN  Parent(At(Top, l), At(Top, r))]

next_level_len == IF levels = <<>> \/ Len(Top) = 1 THEN 0 ELSE (Len(Top) + 1) \div 2

\* One level of new.
new ==
    /\ pc = "building" /\ next_level_len > 0
    /\ levels' = Append(levels, NextLevel)
    /\ UNCHANGED <<items, index, level, nodeIndex, path, leaf, altered, node, used, pc>>

\* find_path of an index that is not a leaf's is None.
FindPath ==
    /\ pc = "building" /\ next_level_len = 0
    /\ pc' = IF index < Len(items) THEN "walking" ELSE "none"
    /\ level' = 1 /\ nodeIndex' = index
    /\ UNCHANGED <<items, levels, index, path, leaf, altered, node, used>>

Sibling(nodes, i) ==
    CASE i % 2 = 1 -> At(nodes, i - 1)
      [] i % 2 = 0 /\ i + 1 < Len(nodes) -> At(nodes, i + 1)
      [] OTHER -> At(nodes, i)

\* One level of find_path; the sibling of the root is never an entry.
find_path ==
    /\ pc = "walking" /\ level < Len(levels)
    /\ path' = Append(path, Sibling(levels[level], nodeIndex))
    /\ nodeIndex' = nodeIndex \div 2
    /\ level' = level + 1
    /\ UNCHANGED <<items, levels, index, leaf, altered, node, used, pc>>

\* get_proof has one hash per entry.  Whoever presents the proof may leave out
\* hashes, or present the hashes of another place in the tree.
get_proof ==
    /\ pc = "walking" /\ level = Len(levels)
    /\ pc' = "verifying"
    /\ \/ UNCHANGED <<path, altered>>
       \/ /\ altered' = TRUE
          /\ \/ \E i \in DOMAIN path : path' = SubSeq(path, 1, i - 1)
             \/ \E i \in DOMAIN path, l \in DOMAIN levels : \E h \in ToSet(levels[l]) :
                   path' = [path EXCEPT ![i] = h]
    /\ UNCHANGED <<items, levels, index, level, nodeIndex, leaf, node, used>>

\* One hash of the proof.
verify_helper ==
    /\ pc = "verifying" /\ used < Len(path)
    /\ node' = hash_intermediate(node, path[used + 1])
    /\ used' = used + 1
    /\ UNCHANGED <<items, levels, index, level, nodeIndex, path, leaf, altered, pc>>

\* Slip: an empty proof has nothing to check.
EmptyProofPasses ==
    /\ pc = "verifying" /\ used = Len(path)
    /\ pc' = IF node = get_root \/ path = <<>> THEN "valid" ELSE "invalid"
    /\ UNCHANGED <<items, levels, index, level, nodeIndex, path, leaf, altered, node, used>>

CompareRoot ==
    /\ pc = "verifying" /\ used = Len(path)
    /\ pc' = IF node = get_root THEN "valid" ELSE "invalid"
    /\ UNCHANGED <<items, levels, index, level, nodeIndex, path, leaf, altered, node, used>>

Next == new \/ FindPath \/ find_path \/ get_proof \/ verify_helper \/ CompareRoot

Spec == Init /\ [][Next]_vars

-----------------------------------------------------------------------------
\* Every level is half of the one below, rounded up, and the last is the root.
TreeTypeOK ==
    /\ pc \in {"building", "walking", "none", "verifying", "valid", "invalid"}
    /\ \A l \in 2 .. Len(levels) : Len(levels[l]) = (Len(levels[l - 1]) + 1) \div 2
    /\ pc # "building" /\ items # <<>> => Len(Top) = 1
    /\ used <= Len(path) /\ Len(path) <= Len(levels)

\* A leaf's own proof verifies (merkle_tree.rs:169-205 against
\* merkle_helper.rs:33-52), for every number of leaves and every place, also
\* where levels of odd length pair a node with itself.
OwnProofVerifies ==
    (pc = "invalid" /\ ~altered) => leaf # At(items, index)

\* Nothing but the leaf of that place verifies with its proof, and no leaf that
\* is not in the tree verifies with a proof that is cut short or has another
\* hash of the tree in it (merkle_helper.rs:21-25): an inner node never passes
\* for a leaf.
OnlyTheTreesLeavesVerify ==
    pc = "valid" =>
        /\ leaf \in ToSet(items)
        /\ ~altered => leaf = At(items, index)
=============================================================================
