------------------------------ MODULE MCBoot ------------------------------
(* Any list of tags on a plain machine, and any machine with all the tags.   *)
EXTENDS Boot, SequencesExt

\* Lists without repetitions.
TagLists == UNION {SetToSeqs(ids) : ids \in SUBSET TagIds} \ {<<>>}

Tables == [facp : BOOLEAN, ok : BOOLEAN]

Plain == [tags |-> <<"rsdp", "smp", "other", "framebuffer", "memmap">>,
          hypervisor |-> TRUE, bitmapAtZero |-> FALSE, devices |-> TRUE, rootOk |-> TRUE,
          revision |-> 0, tables |-> <<[facp |-> TRUE, ok |-> TRUE]>>]

AnyMachine ==
    {[Plain EXCEPT !.tags = t] : t \in TagLists}
    \cup
    {[Plain EXCEPT !.hypervisor = h, !.bitmapAtZero = b, !.devices = d, !.rootOk = o,
                   !.revision = r, !.tables = s] :
        h \in BOOLEAN, b \in BOOLEAN, d \in BOOLEAN, o \in BOOLEAN, r \in 0..3,
        s \in UNION {[1..n -> Tables] : n \in 0..3}}
=============================================================================
