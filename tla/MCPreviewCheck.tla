--------------------------- MODULE MCPreviewCheck ---------------------------
(* Dialects of G-code for TLC: an inch is 2 units long.                     *)
EXTENDS PreviewCheck

L(codes, words) == [g |-> codes, w |-> words]
Anywhere == {[X |-> x, Z |-> z, A |-> 0] : x \in {0, 1}, z \in {0, 2}}
Home == {Origin}
NoWords == [l \in {} |-> 0]

\* Milling: modes, units, modal lines, arcs, G92.
Milling == {
    L(<<"G90">>, NoWords), L(<<"G20">>, NoWords), L(<<"G21">>, NoWords),
    L(<<"G0">>, [X |-> 1]), L(<<"G0">>, [X |-> 2, Z |-> 1]), L(<<"G1">>, [Z |-> -1]),
    L(<<>>, [X |-> 3]), L(<<"G2">>, [X |-> 1, I |-> 1]), L(<<"G3">>, [I |-> 1]),
    L(<<"G2">>, [X |-> 2, Z |-> 0, R |-> 1]), L(<<"G92">>, [X |-> 0]), L(<<"G4">>, NoWords)}
Relative == (Milling \ {L(<<"G92">>, [X |-> 0])}) \cup
    {L(<<"G91">>, NoWords), L(<<"G90", "G0">>, [X |-> 1, Z |-> 0])}
Rotary == {L(<<"G0">>, [A |-> 2]), L(<<"G1">>, [X |-> 1, A |-> 1]), L(<<>>, [A |-> -1]),
           L(<<"G90">>, NoWords), L(<<"G91">>, NoWords), L(<<"G92">>, [A |-> 0]),
           L(<<"G0">>, [X |-> 1, Z |-> 1])}
Drilling == {
    L(<<"G98", "G81">>, [X |-> 1, Z |-> -2, R |-> 1]), L(<<"G98">>, NoWords),
    L(<<"G81">>, [X |-> 2]), L(<<"G83">>, [X |-> 3, Q |-> 1]),
    L(<<"G83">>, [Z |-> -1, R |-> 2, Q |-> 2]), L(<<"G82">>, [X |-> 1, Z |-> 0]),
    L(<<"G80">>, NoWords), L(<<"G0">>, [X |-> 0, Z |-> 3]), L(<<"G1">>, [X |-> 1])}
RPlane == {L(<<"G99">>, NoWords), L(<<"G81">>, [X |-> 1, Z |-> -2, R |-> 1]),
           L(<<"G80">>, NoWords), L(<<"G0">>, [X |-> 0, Z |-> 3])}

D(lines, starts) == [lines |-> lines, starts |-> starts]
MCDialects == {D(Milling, Anywhere), D(Relative, Home), D(Rotary, Home), D(Drilling, Home)}
MCRelativeAnywhere == {D(Relative, Anywhere)}
MCDrilling == {D(Drilling, Home)}
MCModalDrilling == {D(Drilling \cup {L(<<>>, [X |-> 0])}, Home)}
MCRPlane == {D(RPlane, Home)}
=============================================================================
