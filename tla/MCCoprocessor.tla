---------------------------- MODULE MCCoprocessor ----------------------------
(***************************************************************************)
(* Formulas for the techniques: each start names the ones that run on it.  *)
(***************************************************************************)
EXTENDS Coprocessor

Start(n, techniques, c, l, f) ==
    [core |-> c, learnts |-> l, frozen |-> f, techniques |-> techniques, steps |-> n]
Gate2(x, a, b) == {{-x, a}, {-x, b}, {x, -a, -b}}

Eliminations ==
    LET F == {{1,2,3}, {-1,-2}, {-1,-3}, {-2,4}, {1,-4,3}, {2,-3,-4}}
        G == F \ {{-1,-3}}
        H == {{1,2,3}, {-1,2,-4}, {-2,3,4}, {-1,-3,4}, {1,-2}}
        K == {{2,-1,3}, {-2,-3,4}}
    IN  {Start(3, {"bve", "subsumption", "bce", "hte"}, F, {{-1,-4}, {2,3,-4}}, {4}),
         Start(3, {"bve", "subsumption", "cle"}, G, {}, {3}),
         Start(2, {"bve", "hte"}, {{1,2}, {-1,2}, {-2,3,4}, {1,-3,-4}}, {}, {}),
         Start(2, {"cla", "cce", "bce", "bcm", "bve"}, H, {}, {}),
         Start(2, {"hte", "cce", "cle", "cla"}, H, K, {})}

Classes ==
    LET Cycle == {{-1,2}, {-2,3}, {-3,4}, {-4,1}, {1,2,4}}
        Same  == Gate2(3,1,2) \cup Gate2(4,1,2) \cup {{3,1}, {-4,2,-1}}
        Cut   == Gate2(3,1,2) \cup Gate2(4,1,-2) \cup {{3,4,2}}
        InOut == Gate2(3,1,2) \cup Gate2(2,1,3) \cup {{3,4}}
        Not   == Gate2(3,1,2) \cup Gate2(-3,-1,-2) \cup {{3,4,2}}
        One   == Gate2(3,1,2) \cup Gate2(-3,1,-2) \cup {{3,4,2}}
        Of    == Gate2(3,1,2) \cup Gate2(4,3,-1)
        Half  == {{-3,1}, {-3,2}, {1,2,4}, {-4,3}}
    IN  {Start(3, {"ee"}, Cycle, {}, {})} \cup
        {Start(2, {"gates"}, F, {}, {}) : F \in {Same, Cut, InOut, Not, One, Of}} \cup
        {Start(2, {"gates", "blocked gates"}, Half, {}, {})}

Probings ==
    {Start(2, {"probing"}, {{-1,2}, {-2,3}, {-2,-3,4}, {-3,-4,-1}, {1,4}}, {}, {}),
     Start(2, {"probing"}, {{-1,2}, {1,3}, {-3,2}, {2,-3,4}, {-2,-4}}, {{-2,3}}, {2}),
     Start(2, {"probing"}, {{-1,2}, {1,3}, {-3,-2,1}, {2,3,4}, {-4,-2,3}}, {}, {3}),
     Start(2, {"probing"}, {{-1,2,3}, {-1,2,-3}, {1,3,4}, {-2,-4,3}, {-3,4,1}}, {}, {}),
     Start(1, {"probing"}, {{1,2,3}, {-1,2,4}, {2,3,-4}, {1,-3,4}, {-2,-3,-1}}, {{1,4}}, {2}),
     Start(2, {"vivification"}, {{1,2}, {-1,3}, {-2,3,4}, {-3,-4,1,2}}, {{2,3}}, {1}),
     Start(2, {"vivification"}, {{-1,2}, {-1,3}, {-2,-3,4}, {1,-2,-4,3}}, {{-1,-3,4}}, {})}

Stamps ==
    {Start(2, {"unhiding"}, {{-1,2}, {-1,3}, {-2,-3}, {1,4}, {-4,3}, {2,3,4}}, {}, {}),
     Start(2, {"unhiding"}, {{1,2}, {-1,-2}, {-1,3,4}, {-3,2}, {-4,-2,3}}, {{-3,-4}}, {4}),
     Start(2, {"unhiding"}, {{-1,2}, {-2,3}, {-1,3}, {-1,3,4}, {1,4,-2}}, {}, {}),
     Start(2, {"unhiding"}, {{1,2}, {-1,3}, {-2,3,4}, {-3,-4,1}, {-2,4}}, {{1,4}}, {2}),
     Start(2, {"unhiding"}, {{1,2}, {-1,3}, {-3,4}, {-2,-4}, {1,-4,-3}}, {{2,3}}, {1}),
     Start(2, {"unhiding"}, {{-1,2}, {-2,1}, {-1,3,4}, {-3,4}, {-4,2,3}}, {}, {}),
     Start(2, {"hbr"}, {{1,2,3}, {-1,4}, {-2,4}}, {{-3,4}}, {})}

Additions ==
    LET A == {{1,3}, {1,4}, {2,3}, {2,4}, {-1,-2,3}}
    IN  {Start(1, {"bva"}, A, {}, {}),
         Start(2, {"bva", "substitute or"}, A, {{1,2}}, {1}),
         Start(2, {"bva"}, {{1,2,3}, {-1,-2,3}, {-1,2,4}, {1,-2,4}, {-3,-4}}, {}, {1}),
         Start(1, {"bva"}, {{1,2,3}, {-1,-2,3}, {-1,2,4}, {1,-2,4}, {-3,-4}}, {{-3,2}}, {}),
         Start(2, {"bva"}, {{1,2,4}, {-1,3,4}, {1,-2,-4}, {-1,-3,-4}, {-2,-3}}, {}, {}),
         Start(2, {"complements"}, {{1,2,3}, {-1,2,3}, {1,-2,4}, {2,4}, {-3,-4}}, {}, {})}

AtMostOnes ==
    {Start(2, {"rewriting"}, {{-1,-2}, {-1,-3}, {-2,-3}, {1,2,4}, {1,4}, {-1,3,-4}}, {}, {4}),
     Start(2, {"rewriting"}, {{-1,-2}, {-1,-3}, {-2,-3}, {1,2,3}, {-1,4}, {-2,-4}}, {}, {}),
     Start(2, {"rewriting"}, {{-1,-2}, {-2,-3}, {-1,-3,4}, {-1,-3,-4}, {1,2,4}}, {{-1,-3}}, {4})}

MoreClauses ==
    {Start(3, {"ala", "la"}, {{1,2}, {1,3}, {-1,4,2}, {-1,4,3}, {-4,2,-3}}, {}, {1}),
     Start(2, {"resolving", "la"}, {{1,2,3}, {-1,2,4}, {-2,3,4}, {1,-3,4}, {-1,-4}}, {}, {}),
     Start(3, {"resolving", "resolving learnts"}, {{1,2}, {-2,3}, {-1,2,4}}, {{1,3}}, {4}),
     Start(3, {"redundant binaries"}, {{-1,2}, {-2,3}, {-3,4}, {1,4,2}, {-4,1}}, {}, {4}),
     Start(3, {"redundant binaries"}, {{-1,2}, {-2,3}, {-3,-1}, {1,4,2}}, {}, {})}

Refutations ==
    LET F == {{1,2,3}, {-1,2}, {-2,3,4}, {-1,-3,4}, {1,2,-4}, {-2,-4,1}}
        G == {{1,2,3}, {-1,-2}, {-2,3,4}, {1,-3,4}, {-1,-4,2}, {-3,-4}}
        H == {{1,2,3}, {1,2,-3,4}, {-1,2,4}, {-2,-4,1,3}}
    IN  {Start(2, {"rate", "ratm"}, F, {}, {1}), Start(1, {"rate", "bcs"}, G, {}, {}),
         Start(1, {"ratm", "ratm extended"}, G, {}, {2}), Start(2, {"bcs", "ratm extended"}, H, {}, {})}

Parity(a, b, c) == {{a, b, c}, {a, -b, -c}, {-a, b, -c}, {-a, -b, c}}
Parities ==
    {Start(2, {"xor"}, Parity(1,2,3) \cup Parity(2,3,4), {}, {1}),
     Start(2, {"xor"}, Parity(1,2,3) \cup Parity(1,2,-4) \cup {{-1,2}}, {{3,2}}, {}),
     Start(2, {"xor"}, (Parity(1,2,3) \ {{1,2,3}}) \cup {{1,-4}, {2,3,4}, {-3,-4}, {2,4}}, {{1,2}}, {}),
     Start(1, {"xor"}, Parity(1,2,3) \cup Parity(3,4,5) \cup {{1,5}, {-2,4}}, {}, {5}),
     Start(1, {"xor"}, Parity(1,2,3) \cup {{2,3}, {-2,-3}}, {}, {})}

OneOf(S) == {{-l, -k} : l, k \in S} \ {{-l} : l \in S}
Cardinalities ==
    {Start(1, {"fm"}, OneOf({1,2,3}) \cup OneOf({4,5,6}) \cup {{1,4,5}}, {}, {}),
     Start(1, {"fm"}, OneOf({1,2,3}) \cup {{1,3,4}, {2,5,-1}}, {}, {}),
     Start(1, {"fm"}, OneOf({1,2,3}) \cup {{1,4,5}} \cup OneOf({4,5,-2}), {}, {}),
     Start(1, {"fm"}, OneOf({1,2,3}) \cup {{1,4,5}} \cup OneOf({4,5,-2,-3}), {}, {}),
     Start(2, {"fm"}, OneOf({1,2,3}) \cup OneOf({-1,3,4}), {{2,4,3}}, {}),
     Start(1, {"fm"}, {{-1,-2,-3}, {-1,-2,-4}, {-1,-3,-4}, {-2,-3,-4}, {1,2,3}, {1,2,4}}, {}, {}),
     Start(1, {"alo matrix"}, OneOf({1,2,3}) \cup OneOf({-1,-2,-3}) \cup {{1,-2}, {2,-3}, {3,-1}}, {}, {})}

Implications ==
    {Start(2, {"entailed"}, {{1,2,3}, {1,4}, {-4,2,3}, {1,4,2}, {-1,2}, {2,3,-1}}, {{1,3}}, {2}),
     Start(2, {"modprep", "symmetry"}, {{1,2}, {-1,3}, {-2,3,4}, {-3,-4,1}}, {{3,4}}, {1})}

Ands(x, S) == {{-x, a} : a \in S} \cup {{x} \cup {-a : a \in S}}
IteOf(x, s, t, f) == {{-x, -s, t}, {-x, s, f}, {x, -s, -t}, {x, s, -f}}
Parity4 == {{1,2,3,4},{-1,-2,3,4},{-1,2,-3,4},{1,-2,-3,4},{-1,2,3,-4},{1,-2,3,-4},{1,2,-3,-4},{-1,-2,-3,-4}}
OtherGates ==
    {Start(1, {"and"}, Ands(4, {1,2,3}) \cup Ands(5, {1,2,3}) \cup {{4,-5,1}}, {}, {}),
     Start(1, {"and"}, Gate2(3,1,2) \cup Gate2(4,1,2) \cup {{3,4}}, {{3,-4}}, {}),
     Start(2, {"exactly one"}, OneOf({1,2,3}) \cup OneOf({2,3,4}) \cup {{1,2,3}, {2,3,4}}, {}, {}),
     Start(1, {"ite"}, IteOf(4,1,2,3) \cup IteOf(5,-1,3,2) \cup {{4,-5}}, {}, {}),
     Start(1, {"ite"}, IteOf(4,1,2,3) \cup IteOf(5,1,-2,-3), {{4,5}}, {5}),
     Start(2, {"parity"}, Parity4 \cup Parity(1,2,3), {}, {}),
     Start(2, {"parity"}, Parity4 \cup Parity(1,2,-4), {}, {}),
     Start(1, {"parity"}, Parity(1,2,3) \cup Parity(2,3,4) \cup {{1,4}}, {}, {}),
     Start(1, {"parity"}, (Parity(1,2,3) \ {{1,2,3}}) \cup Parity(1,2,-3) \cup {{1,2}}, {}, {})}

Takeovers ==
    LET F == {{1,2,3}, {-1,-2}, {-1,-3}, {-2,4}, {1,-4,3}, {2,-3,-4}}
        H == {{1,2,3}, {-1,2,-4}, {-2,3,4}, {-1,-3,4}, {1,-2}}
    IN  {Start(3, {"simp"}, F, {}, {4}), Start(3, {"simp"}, H, {}, {2}),
         Start(3, {"simp"}, {{1,2}, {-1,2}, {-2,3,4}, {1,-3,-4}}, {}, {})}

Threaded ==
    LET F == {{1,2,3}, {-1,-2}, {-1,-3}, {-2,4}, {1,-4,3}, {2,-3,-4}}
        H == {{1,2,3}, {-1,2,-4}, {-2,3,4}, {-1,-3,4}, {1,-2}}
    IN  {Start(2, {"parallel bve"}, F, {{-1,-4}}, {4}), Start(2, {"parallel bve"}, H, {}, {2}),
         Start(2, {"parallel bve"}, {{1,2}, {-1,2}, {-2,3,4}, {1,-3,-4}, {3,5}, {-3,-5,4}}, {}, {})}

Learning ==
    LET F == {{1,2}, {-1,3}, {-2,3,4}, {-3,-4,1}, {2,-4,1}}
        K == {{1,3}, {2,3}}
        X == {{1,3}, {2,3}, {-1,-2,4}, {-3,1,2}}
        L == {{-1,2}, {1,-2}, {1,3,4}, {-3,2,4}, {3,-4,1}}
    IN  {Start(2, {"lcm", "ics", "reduce"}, F, {{1,3,4}, {2,3,-4}}, {4}),
         Start(1, {"lcm", "ics"}, {{1,-2}, {1,2,3,4}, {1,2,3,-4}}, {{1,2,3}}, {1}),
         Start(2, {"uhle", "otfss"}, {{1,2,4}, {-1,3}, {-2,3,4}, {1,-3,4}}, {{1,3,4}, {3,2,-4}}, {3}),
         Start(1, {"uhd"}, {{1,2,4}, {-1,3}, {-2,3}, {-4,3}, {-3,1,4}}, {{1,2}, {1,2,4}}, {}),
         Start(1, {"search probing"}, {{1,2,3}, {-1,4}, {-2,4,3}, {-3,4,1}, {1,-3,2}}, {{-3,-1}}, {2}),
         Start(1, {"look-ahead"}, L, {}, {1}),
         Start(1, {"look-ahead"}, {{-1,-2,3}, {-1,2,3}, {1,-2,3}, {1,2,3,4}, {1,2,-4,3}}, {}, {}),
         Start(2, {"rer", "reduce"}, X, K, {4}), Start(1, {"rer"}, X \ {{2,3}}, K, {}),
         Start(1, {"rer"}, {{1,2}, {-1,-2,4}, {-1,-2,-4}, {2,3,-4}, {1,4,3}}, {{1,3}, {2,3}}, {})}

Renumbered ==
    LET F == {{1,2,3}, {-1,-2}, {-1,-3}, {-2,4}, {1,-4,3}, {2,-3,-4}}
        E == {{-1,2}, {-2,1}, {1,3,4}, {-3,-4,2}}
    IN  {Start(2, {"dense", "bve"}, {{2,3}, {-2,4}, {-3,-2,4}}, {{1,2,3}, {2,3,5}}, {4,5}),
         Start(3, {"dense", "bve"}, F, {{-1,-4}, {2,3,-4}}, {4}),
         Start(3, {"dense", "ee"}, E, {{3,4}}, {4}),
         Start(2, {"dense", "bva"}, {{1,3,2}, {1,4,2}, {2,3,-1}, {2,4,-1}}, {{2,5}}, {4}),
         Start(3, {"dense", "bve"}, {{-1,2}, {1,2}, {-2,3,4}, {1,-3,-4}}, {{1,-4}}, {4})}

SomeStarts ==
    Eliminations \cup Classes \cup Probings \cup Stamps \cup Additions \cup AtMostOnes \cup MoreClauses
    \cup Refutations \cup Parities \cup Cardinalities \cup Implications \cup OtherGates \cup Takeovers \cup Threaded \cup Learning \cup Renumbered
==============================================================================
