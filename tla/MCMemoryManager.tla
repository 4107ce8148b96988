-------------------------- MODULE MCMemoryManager --------------------------
(* Objects for the runs of MemoryManager: one section in each group, or up *)
(* to two sections in one group.  Only an object with sections in every    *)
(* group leaves blocks that a later object can reuse.                      *)
EXTENDS MemoryManager

CONSTANTS Sizes, Alignments

MCSections == [size : Sizes, align : Alignments]

OneInEach == [Groups -> {<<s>> : s \in MCSections}]

InOneGroup ==
    {[g \in Groups |-> IF g = h THEN ss ELSE <<>>] :
        h \in Groups,
        ss \in {<<s>> : s \in MCSections} \cup (MCSections \X MCSections)}

MCRequests == OneInEach \cup InOneGroup
=============================================================================
