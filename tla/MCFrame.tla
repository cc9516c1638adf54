------------------------------ MODULE MCFrame ------------------------------
(***************************************************************************)
(* Frame over files of every kind, small frames, faces at the edges, and   *)
(* every picture that differs from an ordinary one in two of its measures. *)
(***************************************************************************)
EXTENDS Frame

Zone(a, b, c, d, e) == [black |-> a, shadow |-> b, mid |-> c, bright |-> d, blown |-> e]
MCZones == {Zone(0, 30, 60, 10, 0), Zone(30, 60, 10, 0, 0), Zone(25, 0, 50, 5, 20),
            Zone(0, 0, 5, 45, 50), Zone(5, 20, 60, 13, 2), Zone(0, 0, 0, 0, 0)}
Ordinary ==
    [zones |-> Zone(0, 30, 60, 10, 0), range |-> 120, local |-> 90, cast |-> 20, rg |-> 1000,
     bg |-> 1000, neutral |-> 100, saturation |-> 400, oversaturated |-> 0, chroma |-> 50,
     sharp |-> 300, top |-> 400, lumaNoise |-> 10, chromaNoise |-> 10]
MCValues ==
    [zones |-> MCZones, range |-> {40, 79, 150, 151, 255}, local |-> {10, 79}, cast |-> {900},
     rg |-> {1125, 1700}, bg |-> {1000}, neutral |-> {10}, saturation |-> {0, 600, 1000},
     oversaturated |-> {51, 900}, chroma |-> {5}, sharp |-> {0, 60, 2000}, top |-> {20, 149},
     lumaNoise |-> {21, 60, 400}, chromaNoise |-> {200}]
MCPairs == UNION {{<<f, v>> : v \in MCValues[f]} : f \in DOMAIN MCValues}
MCPictures == {[[Ordinary EXCEPT ![x[1]] = x[2]] EXCEPT ![y[1]] = y[2]] : x, y \in MCPairs}
MCNoisy == [Ordinary EXCEPT !.lumaNoise = 60]

Size(w, h) == [w |-> w, h |-> h]
Native == [kind |-> "native"]
Percent(n) == [kind |-> "percent", percent |-> n]
Explicit(w, h) == [kind |-> "size", size |-> Size(w, h)]
MCSettings ==
    [target |-> Native, aiScale |-> 1000, srMinLongEdge |-> 14, faceMaxPx |-> 6,
     denoise |-> TRUE, faceRestore |-> TRUE, backlit |-> TRUE, denoiseStrength |-> 750,
     weights |-> AI, arcface |-> TRUE, heicOk |-> TRUE, jpegLongEdge |-> 0]

Face(x, y, w, h, sharp, drifts) ==
    [box |-> [x |-> x, y |-> y, w |-> w, h |-> h], sharp |-> sharp, drifts |-> drifts,
     embeds |-> TRUE]
NoEmbedding(f) == [f EXCEPT !.embeds = FALSE]
MCFaces == {<<>>, <<Face(-2, 3, 3, 1, 50, TRUE)>>, <<Face(9, 0, 6, 9, 300, TRUE)>>,
            <<NoEmbedding(Face(4, 4, 7, 7, 300, TRUE)), Face(11, 7, 1, 1, 50, TRUE)>>}

Raw == [ext |-> "raw", content |-> "raw", turned |-> TRUE, embedded |-> "jpeg",
        samples |-> 3, depth |-> "u16", profile |-> "none"]
MCFiles == {f \in [ext : Kinds \cup {"txt"}, content : Kinds \cup {"junk"}, turned : BOOLEAN,
                   embedded : {"jpeg", "none"}, samples : {2, 3}, depth : {"u8", "float"},
                   profile : {"none", "linear"}] : f \in Files}

MCShot == [file |-> Raw, native |-> Size(16, 18), picture |-> Ordinary, faces |-> <<>>,
           iso |-> None, settings |-> MCSettings]
MCPlannerShots ==
    {[MCShot EXCEPT !.picture = p, !.native = n, !.faces = f, !.iso = i] :
        p \in MCPictures, n \in {Size(16, 18), Size(12, 9)}, i \in {None, 100},
        f \in {<<>>, <<Face(4, 4, 7, 7, 300, FALSE)>>}}
MCGeometryShots ==
    {[MCShot EXCEPT !.picture = MCNoisy, !.native = n, !.faces = f,
          !.settings = [MCSettings EXCEPT !.target = t, !.aiScale = a, !.weights = w]] :
        n \in {Size(13, 9), Size(18, 16), Size(5, 40), Size(3, 3), Size(30, 1)}, f \in MCFaces,
        t \in {Native, Percent(50), Percent(200), Explicit(12, 8)}, a \in {1000, 700, 100},
        w \in {AI, {}}}
MCFileShots ==
    {[MCShot EXCEPT !.file = f,
          !.settings = [MCSettings EXCEPT !.heicOk = h, !.jpegLongEdge = e]] :
        f \in MCFiles, h \in BOOLEAN, e \in {0, 10}}
MCShots == MCPlannerShots \cup MCGeometryShots \cup MCFileShots
=============================================================================
