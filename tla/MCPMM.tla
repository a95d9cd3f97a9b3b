------------------------------- MODULE MCPMM -------------------------------
(* Memory maps of up to four regions, with and without holes, on pages so    *)
(* small that the bitmap of a few pages can be longer than a region.         *)
EXTENDS PMM, Functions

Shapes == [length : {1, 2, 5}, usable : BOOLEAN, hole : {0, 2}]

\* Regions one after the other, each after its hole.
Laid(s) ==
    [i \in DOMAIN s |->
        [base |-> SumFunction([j \in 1..i |-> s[j].hole])
                    + SumFunction([j \in 1..(i - 1) |-> s[j].length]),
         length |-> s[i].length, usable |-> s[i].usable]]

\* Page 0 is reserved.
SmallMaps ==
    {Laid(<<[length |-> 1, usable |-> FALSE, hole |-> 0]>> \o s) :
        s \in UNION {[1..n -> Shapes] : n \in 1..3}}
=============================================================================
