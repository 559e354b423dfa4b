-------------------------- MODULE BuildPipelineProofs --------------------------
(* Theorems about BuildPipeline.  OciPull: for any tree and any number of layers,  *)
(* what a pull leaves at its destination is the overlay of the layers' members under *)
(* usr/local/.                                                                 *)
(* ValidationGate: for any number of clients who act on the gate's own project,      *)
(* what a verdict means and what the runner leaves behind.                          *)
EXTENDS BuildPipeline, TLAPS

-----------------------------------------------------------------------------
(* The layers.                                                               *)

\* A tree: what is in a directory is there because the directory is.
Grown(t) == \A k \in Kids : t[k] # Absent => t[Above[k]] = Dir

\* The layers that the tree has.
Layered == CASE fetch.pc \in {"manifest", "mkdtemp"} -> 0
             [] fetch.pc \in {"download", "apply"}   -> fetch.layer - 1
             [] OTHER                                -> Len(image)

TreeInv ==
  /\ fetch.pc \in {"mkdtemp", "download", "apply", "rename", "walk"} => image \in Images
  /\ fetch.pc \in {"download", "apply"} => fetch.layer \in 1 .. Len(image)
  /\ fetch.pc \in {"manifest", "mkdtemp", "download", "apply", "rename", "walk"} =>
       tree = OverlayTo(Inside(image), Layered) /\ Grown(tree)

\* scratch and dest follow the pull; stuck excuses what a rm() has left.
KeptInv ==
  /\ fetch.pc \in {"manifest", "mkdtemp", "download", "apply", "rename"} =>
       dest = NoTree /\ fetch.ok
  /\ fetch.pc \in {"walk", "pulled"} \/ (fetch.pc = "cleanup" /\ fetch.ok) => dest # NoTree
  /\ fetch.pc \in {"walk", "pulled"} => fetch.ok
  /\ dest # NoTree => dest = Overlay(Inside(image))
  /\ ~stuck /\ ~(fetch.ok /\ fetch.pc \in {"walk", "pulled", "cleanup"}) => dest = NoTree
  /\ fetch.pc = "manifest" => scratch = {}
  /\ fetch.pc = "mkdtemp" => scratch = {"spool"}
  /\ fetch.pc \in {"idle", "failed"} /\ ~stuck => "extract" \notin scratch
  /\ fetch.pc = "pulled" => scratch = {}

OciInv == OciTypeOK /\ TreeInv /\ KeptInv

LEMMA ImageFacts ==
  ASSUME OciAssumption, NEW img \in Images
  PROVE  /\ Len(img) \in 1 .. MaxLayers /\ DOMAIN img = 1 .. Len(img)
         /\ \A n \in 1 .. Len(img) : img[n] \in Layers /\ WellFormed(img[n])
<1>1. PICK n \in 1 .. MaxLayers : img \in [1 .. n -> Bases \cup Uppers]
  BY DEF Images
<1>2. n \in Nat /\ DOMAIN img = 1 .. n /\ img \in Seq(Bases \cup Uppers)
  BY <1>1 DEF OciAssumption
<1>3. Len(img) = n
  BY <1>2
<1>4. \A m \in 1 .. n : img[m] \in Bases \cup Uppers
  BY <1>1
<1> QED BY <1>2, <1>3, <1>4 DEF OciAssumption

LEMMA TopmostIs ==
  ASSUME NEW S \in SUBSET Nat, NEW n \in S, \A j \in S : j <= n
  PROVE  Topmost(S) = n
<1>1. Topmost(S) \in S /\ \A j \in S : j <= Topmost(S)
  BY DEF Topmost
<1>2. Topmost(S) \in Nat /\ n \in Nat /\ n <= Topmost(S) /\ Topmost(S) <= n
  BY <1>1
<1> QED BY <1>2

\* What a member under the prefix says does not depend on markers above it.
LEMMA InsideFacts ==
  ASSUME OciAssumption, NEW img \in Images
  PROVE  /\ Len(Inside(img)) = Len(img)
         /\ \A n \in 1 .. Len(img) : Inside(img)[n] = InPrefix(img[n])
<1>1. Len(img) \in Nat /\ DOMAIN img = 1 .. Len(img)
  BY ImageFacts DEF OciAssumption
<1>2. Inside(img) = [n \in 1 .. Len(img) |-> InPrefix(img[n])]
  BY <1>1 DEF Inside
<1> HIDE DEF Inside
<1> QED BY <1>1, <1>2

LEMMA InPrefixFacts ==
  ASSUME OciAssumption, NEW l \in Layers, NEW p
  PROVE  Replaces(InPrefix(l), p) <=>
           l.put[p] # "none" \/ Hidden(l, p) \/ (p \in Kids /\ l.put[Above[p]] = "file")
<1>1. /\ InPrefix(l).put = l.put /\ InPrefix(l).hide = l.hide
      /\ InPrefix(l).opaque = l.opaque /\ InPrefix(l).outer = FALSE
  BY DEF InPrefix, Layers
<1> QED BY <1>1 DEF Replaces, Hidden

LEMMA OverlayEmpty == \A img : OverlayTo(img, 0) = Empty
BY DEF OverlayTo, Empty, Says

\* The next layer decides what it speaks of, and leaves the rest.
LEMMA OverlayNext ==
  ASSUME NEW img, NEW n \in Nat, NEW p \in Paths
  PROVE  OverlayTo(img, n + 1)[p] =
           IF ~Replaces(img[n + 1], p) THEN OverlayTo(img, n)[p]
           ELSE CASE img[n + 1].put[p] = "none" -> Absent
                  [] img[n + 1].put[p] = "dir"  -> Dir
                  [] OTHER                      -> n + 1
<1>1. CASE ~Replaces(img[n + 1], p)
  <2>1. Says(img, n + 1, p) = Says(img, n, p)
    BY <1>1 DEF Says
  <2> QED BY <1>1, <2>1 DEF OverlayTo
<1>2. CASE Replaces(img[n + 1], p)
  <2>1. n + 1 \in Says(img, n + 1, p) /\ Says(img, n + 1, p) \in SUBSET Nat
        /\ \A j \in Says(img, n + 1, p) : j <= n + 1
    BY <1>2 DEF Says
  <2>2. Topmost(Says(img, n + 1, p)) = n + 1
    BY <2>1, TopmostIs
  <2>3. Says(img, n + 1, p) # {}
    BY <2>1
  <2> QED BY <1>2, <2>2, <2>3 DEF OverlayTo
<1> QED BY <1>1, <1>2

\* Apply does to a tree what the next layer does to the overlay, markers first and
\* extraction after, where tar does not fail.
LEMMA ApplyIsOverlay ==
  ASSUME OciAssumption, NEW img, NEW n \in Nat, n + 1 \in 1 .. MaxLayers,
         NEW l \in Layers, WellFormed(l), img[n + 1] = InPrefix(l),
         NEW t, t = OverlayTo(img, n), t \in [Paths -> Contents], Grown(t),
         ~TarFails(Whiteouts(t, l), l)
  PROVE  /\ Apply(t, l, n + 1) = OverlayTo(img, n + 1)
         /\ Grown(Apply(t, l, n + 1))
         /\ Apply(t, l, n + 1) \in [Paths -> Contents]
<1> DEFINE w == Whiteouts(t, l)
           a == Apply(t, l, n + 1)
<1>1. /\ l.put \in [Paths -> {"none", "file", "dir"}]
      /\ l \in Layers /\ WellFormed(l) /\ ~TarFails(w, l)
      /\ img[n + 1].put = l.put
  BY DEF Layers, InPrefix
<1>2. \A p \in Paths : w[p] = IF Hidden(l, p) THEN Absent ELSE t[p]
  BY DEF Whiteouts
<1>3. \A p \in Paths : a[p] = IF l.put[p] = "none" THEN w[p] ELSE IF l.put[p] = "dir" THEN Dir ELSE n + 1
  BY DEF Apply, Extract
<1> HIDE DEF w, a
<1>4. Tops \subseteq Paths /\ Kids \subseteq Paths /\ \A k \in Kids : Above[k] \in Tops
  BY DEF OciAssumption, Paths
<1>5. \A d \in Tops : Hidden(l, d) <=> d \in l.hide \/ Root \in l.opaque
  BY <1>4 DEF Hidden, OciAssumption
\* A file that hides nothing takes the place of a directory only if that is empty.
<1>6. ASSUME NEW k \in Kids, l.put[k] = "none", ~Hidden(l, k), t[k] # Absent
      PROVE  /\ w[k] = t[k] /\ w[Above[k]] = Dir /\ l.put[Above[k]] # "file"
  <2>1. t[Above[k]] = Dir
    BY <1>6 DEF Grown
  <2>2. ~Hidden(l, Above[k])
    BY <1>4, <1>5, <1>6 DEF Hidden
  <2>3. w[k] = t[k] /\ w[Above[k]] = Dir
    BY <1>2, <1>4, <1>6, <2>1, <2>2
  <2>4. k \in In(w, Above[k])
    BY <1>6, <2>3 DEF In
  <2> QED BY <1>1, <1>4, <2>3, <2>4 DEF TarFails
<1>7. ASSUME NEW p \in Paths
      PROVE  a[p] = OverlayTo(img, n + 1)[p] /\ a[p] \in Contents
  <2>1. t[p] \in Contents /\ Absent \in Contents /\ Dir \in Contents /\ n + 1 \in Contents
    BY DEF Contents
  <2>2. OverlayTo(img, n + 1)[p] =
           IF ~Replaces(img[n + 1], p) THEN t[p]
           ELSE CASE l.put[p] = "none" -> Absent
                  [] l.put[p] = "dir"  -> Dir
                  [] OTHER             -> n + 1
    BY <1>1, OverlayNext
  <2>r. Replaces(img[n + 1], p) <=>
          l.put[p] # "none" \/ Hidden(l, p) \/ (p \in Kids /\ l.put[Above[p]] = "file")
    BY InPrefixFacts
  <2>3. CASE l.put[p] = "none" /\ Hidden(l, p)
    BY <1>2, <1>3, <2>1, <2>2, <2>r, <2>3
  <2>4. CASE l.put[p] = "none" /\ ~Hidden(l, p)
    <3>1. a[p] = t[p]
      BY <1>2, <1>3, <2>4
    <3>2. Replaces(img[n + 1], p) => t[p] = Absent
      BY <1>6, <2>r, <2>4
    <3> QED BY <2>1, <2>2, <2>4, <3>1, <3>2
  <2>5. CASE l.put[p] = "dir"
    BY <1>3, <2>1, <2>2, <2>r, <2>5
  <2>6. CASE l.put[p] = "file"
    BY <1>3, <2>1, <2>2, <2>r, <2>6
  <2> QED BY <1>1, <2>3, <2>4, <2>5, <2>6
<1>8. a \in [Paths -> Contents] /\ a = OverlayTo(img, n + 1)
  <2>1. a = [p \in Paths |-> a[p]]
    BY Zenon DEF a, Apply, Extract
  <2>2. OverlayTo(img, n + 1) = [p \in Paths |-> OverlayTo(img, n + 1)[p]]
    BY Zenon DEF OverlayTo
  <2> QED BY <1>7, <2>1, <2>2
<1>9. Grown(a)
  <2>1. SUFFICES ASSUME NEW k \in Kids, a[k] # Absent PROVE a[Above[k]] = Dir
    BY DEF Grown
  <2>2. CASE l.put[k] # "none"
    <3>1. l.put[Above[k]] = "dir"
      BY <1>1, <2>2 DEF WellFormed
    <3> QED BY <1>3, <1>4, <3>1
  <2>3. CASE l.put[k] = "none"
    <3>1. a[k] = w[k] /\ w[k] # Absent
      BY <1>3, <1>4, <2>1, <2>3
    <3>2. ~Hidden(l, k) /\ t[k] # Absent
      BY <1>2, <1>4, <3>1
    <3>3. w[Above[k]] = Dir /\ l.put[Above[k]] # "file"
      BY <1>6, <2>3, <3>2
    <3> QED BY <1>1, <1>3, <1>4, <3>3
  <2> QED BY <2>2, <2>3
<1> QED BY <1>8, <1>9 DEF a


-----------------------------------------------------------------------------
(* The pull.                                                                 *)

FetchPcs == {"idle", "manifest", "mkdtemp", "download", "apply", "rename", "walk",
             "cleanup", "pulled", "failed"}

LEMMA FetchFacts ==
  ASSUME OciTypeOK, NEW pc \in FetchPcs
  PROVE  /\ [fetch EXCEPT !.pc = pc] \in [pc : FetchPcs, layer : 0 .. MaxLayers, ok : BOOLEAN]
         /\ [fetch EXCEPT !.pc = pc].pc = pc /\ [fetch EXCEPT !.pc = pc].ok = fetch.ok
         /\ [fetch EXCEPT !.pc = pc].layer = fetch.layer
         /\ [fetch EXCEPT !.pc = pc, !.ok = FALSE]
              \in [pc : FetchPcs, layer : 0 .. MaxLayers, ok : BOOLEAN]
         /\ [fetch EXCEPT !.pc = pc, !.ok = FALSE].pc = pc
         /\ [fetch EXCEPT !.pc = pc, !.ok = FALSE].ok = FALSE
<1>1. fetch \in [pc : FetchPcs, layer : 0 .. MaxLayers, ok : BOOLEAN]
  BY DEF OciTypeOK, FetchPcs
<1> HIDE DEF FetchPcs
<1> QED BY <1>1

LEMMA EmptyGrown == Grown(Empty)
BY DEF Grown, Empty, Paths

\* A fresh pull, and a state in which none is under way.
LEMMA OciRest ==
  ASSUME OciAssumption, OciTypeOK',
         fetch'.pc \in {"idle", "failed", "pulled", "cleanup"}, KeptInv'
  PROVE  OciInv'
BY DEF OciInv, TreeInv

LEMMA OciBegins ==
  ASSUME OciAssumption, fetch' = [pc |-> "manifest", layer |-> 0, ok |-> TRUE],
         image' = <<>>, tree' = Empty, scratch' = {}, stuck' = FALSE, dest' = NoTree
  PROVE  OciInv'
<1>1. OciTypeOK'
  <2>1. Empty \in [Paths -> Contents]
    BY DEF Empty, Contents
  <2>2. fetch' \in [pc : FetchPcs, layer : 0 .. MaxLayers, ok : BOOLEAN]
    BY DEF FetchPcs, OciAssumption
  <2> QED BY <2>1, <2>2 DEF OciTypeOK, FetchPcs
<1>2. TreeInv'
  BY OverlayEmpty, EmptyGrown DEF TreeInv, Layered, Grown
<1> QED BY <1>1, <1>2 DEF OciInv, KeptInv

LEMMA OciStepInv == ASSUME OciAssumption, OciInv, OciSteps PROVE OciInv'
<1> USE DEF FetchAt, FetchGo, Throw, FetchPcs
<1>1. CASE Manifest
  <2>1. fetch' = [fetch EXCEPT !.pc = "mkdtemp"] /\ fetch'.pc = "mkdtemp"
        /\ fetch'.ok = fetch.ok /\ fetch.pc = "manifest"
    BY <1>1, FetchFacts DEF Manifest, OciInv
  <2>2. OciTypeOK'
    BY <1>1, <2>1, FetchFacts DEF Manifest, OciInv, OciTypeOK
  <2>3. tree' = tree /\ Layered = 0 /\ Layered' = 0 /\ image' \in Images
    BY <1>1, <2>1 DEF Manifest, Layered
  <2>4. OverlayTo(Inside(image'), 0) = OverlayTo(Inside(image), 0)
    BY OverlayEmpty
  <2>5. TreeInv'
    BY <2>1, <2>3, <2>4 DEF OciInv, TreeInv, Grown
  <2>6. KeptInv'
    BY <1>1, <2>1 DEF Manifest, OciInv, KeptInv
  <2> QED BY <2>2, <2>5, <2>6 DEF OciInv
<1>2. CASE Scratch
  <2>1. fetch' = [fetch EXCEPT !.pc = "download", !.layer = 1] /\ fetch.pc = "mkdtemp"
    BY <1>2 DEF Scratch
  <2>2. /\ fetch'.pc = "download" /\ fetch'.ok = fetch.ok /\ fetch'.layer = 1
        /\ fetch' \in [pc : FetchPcs, layer : 0 .. MaxLayers, ok : BOOLEAN]
    <3>1. fetch \in [pc : FetchPcs, layer : 0 .. MaxLayers, ok : BOOLEAN] /\ 1 \in 0 .. MaxLayers
      BY DEF OciInv, OciTypeOK, OciAssumption
    <3> QED BY <2>1, <3>1
  <2>3. OciTypeOK'
    BY <1>2, <2>2 DEF Scratch, OciInv, OciTypeOK
  <2>4. image' = image /\ tree' = tree /\ image \in Images /\ Layered = 0 /\ Layered' = 0
    BY <1>2, <2>1, <2>2 DEF Scratch, Layered, OciInv, TreeInv
  <2>5. 1 \in 1 .. Len(image)
    BY <2>4, ImageFacts
  <2>6. TreeInv'
    BY <2>1, <2>2, <2>4, <2>5 DEF OciInv, TreeInv, Grown
  <2>7. KeptInv'
    BY <1>2, <2>1, <2>2 DEF Scratch, OciInv, KeptInv
  <2> QED BY <2>3, <2>6, <2>7 DEF OciInv
<1>3. CASE Downloaded
  <2>1. fetch'.pc = "apply" /\ fetch'.ok = fetch.ok /\ fetch'.layer = fetch.layer
        /\ fetch' \in [pc : FetchPcs, layer : 0 .. MaxLayers, ok : BOOLEAN]
        /\ fetch.pc = "download"
    BY <1>3, FetchFacts DEF Downloaded, OciInv
  <2>2. OciTypeOK'
    BY <1>3, <2>1 DEF Downloaded, OciInv, OciTypeOK
  <2>3. image' = image /\ tree' = tree /\ Layered' = Layered
    BY <1>3, <2>1 DEF Downloaded, Layered
  <2>4. TreeInv'
    BY <2>1, <2>3 DEF OciInv, TreeInv, Grown
  <2>5. KeptInv'
    BY <1>3, <2>1 DEF Downloaded, OciInv, KeptInv
  <2> QED BY <2>2, <2>4, <2>5 DEF OciInv
<1>4. CASE Applied
  <2> DEFINE n == fetch.layer - 1
  <2>1. /\ fetch.pc = "apply" /\ image \in Images /\ fetch.layer \in 1 .. Len(image)
        /\ tree = OverlayTo(Inside(image), n) /\ Grown(tree) /\ tree \in [Paths -> Contents]
        /\ tree' = Apply(tree, image[fetch.layer], fetch.layer)
        /\ image' = image
        /\ ~TarFails(Whiteouts(tree, image[fetch.layer]), image[fetch.layer])
    BY <1>4 DEF Applied, OciInv, TreeInv, Layered, OciTypeOK
  <2>2. /\ n \in Nat /\ n + 1 = fetch.layer /\ n + 1 \in 1 .. MaxLayers
        /\ image[n + 1] \in Layers /\ WellFormed(image[n + 1])
        /\ Len(image) \in 1 .. MaxLayers
        /\ Inside(image)[n + 1] = InPrefix(image[n + 1])
    BY <2>1, ImageFacts, InsideFacts DEF OciAssumption
  <2> HIDE DEF n
  <2>3. tree' = OverlayTo(Inside(image), n + 1) /\ Grown(tree)' /\ tree' \in [Paths -> Contents]
    <3>1. ~TarFails(Whiteouts(tree, image[n + 1]), image[n + 1])
          /\ tree' = Apply(tree, image[n + 1], n + 1)
      BY <2>1, <2>2
    <3> QED BY <2>1, <2>2, <3>1, ApplyIsOverlay DEF Grown
  <2>4. \/ /\ fetch'.pc = "download" /\ fetch'.layer = n + 2 /\ n + 2 \in 1 .. Len(image)
           /\ fetch'.ok = fetch.ok
        \/ fetch'.pc = "rename" /\ n + 1 = Len(image) /\ fetch'.layer = n + 1 /\ fetch'.ok = fetch.ok
    <3>1. CASE fetch.layer < Len(image)
      <4>1. fetch' = [fetch EXCEPT !.pc = "download", !.layer = fetch.layer + 1]
        BY <1>4, <3>1 DEF Applied
      <4>2. fetch'.pc = "download" /\ fetch'.layer = fetch.layer + 1 /\ fetch'.ok = fetch.ok
        BY <4>1 DEF OciInv, OciTypeOK
      <4> QED BY <2>1, <2>2, <3>1, <4>2
    <3>2. CASE ~(fetch.layer < Len(image))
      <4>1. fetch' = [fetch EXCEPT !.pc = "rename"]
        BY <1>4, <3>2 DEF Applied
      <4>2. fetch'.pc = "rename" /\ fetch'.layer = fetch.layer /\ fetch'.ok = fetch.ok
        BY <4>1 DEF OciInv, OciTypeOK
      <4> QED BY <2>1, <2>2, <3>2, <4>2
    <3> QED BY <3>1, <3>2
  <2>5. fetch' \in [pc : FetchPcs, layer : 0 .. MaxLayers, ok : BOOLEAN]
    <3>1. fetch' = [pc |-> fetch'.pc, layer |-> fetch'.layer, ok |-> fetch'.ok]
      BY <1>4 DEF Applied, OciInv, OciTypeOK
    <3> QED BY <2>2, <2>4, <3>1 DEF OciInv, OciTypeOK
  <2>6. OciTypeOK'
    BY <1>4, <2>3, <2>5 DEF Applied, OciInv, OciTypeOK
  <2>7. Layered' = n + 1
    BY <2>1, <2>2, <2>4 DEF Layered
  <2>8. TreeInv'
    BY <2>1, <2>3, <2>4, <2>7 DEF TreeInv
  <2>9. KeptInv'
    BY <1>4, <2>1, <2>4 DEF Applied, OciInv, KeptInv
  <2> QED BY <2>6, <2>8, <2>9 DEF OciInv
<1>5. CASE Assembled
  <2>1. fetch'.pc = "walk" /\ fetch'.ok = fetch.ok /\ fetch.pc = "rename"
        /\ fetch' \in [pc : FetchPcs, layer : 0 .. MaxLayers, ok : BOOLEAN]
    BY <1>5, FetchFacts DEF Assembled, OciInv
  <2>2. image' = image /\ tree' = tree /\ dest' = tree /\ Layered = Len(image)
        /\ Layered' = Len(image)
    BY <1>5, <2>1 DEF Assembled, Layered
  <2>3. dest' = Overlay(Inside(image)) /\ dest' # NoTree
    BY <2>1, <2>2, InsideFacts DEF OciInv, TreeInv, Overlay, OciTypeOK, OciAssumption
  <2>4. OciTypeOK'
    BY <1>5, <2>1, <2>2 DEF Assembled, OciInv, OciTypeOK
  <2>5. TreeInv'
    BY <2>1, <2>2 DEF OciInv, TreeInv, Grown
  <2>6. KeptInv'
    BY <1>5, <2>1, <2>2, <2>3 DEF Assembled, OciInv, KeptInv
  <2> QED BY <2>4, <2>5, <2>6 DEF OciInv
<1>6. CASE FetchFails \/ DownloadFails \/ ApplyFails \/ NotAssembled
  <2>1. PICK pc \in {"failed", "cleanup"} :
           /\ Throw(pc)
           /\ pc = "failed" => fetch.pc \in {"manifest", "mkdtemp"}
    BY <1>6 DEF FetchFails, DownloadFails, ApplyFails, NotAssembled
  <2>2. fetch'.pc = pc /\ fetch'.ok = FALSE
        /\ fetch' \in [pc : FetchPcs, layer : 0 .. MaxLayers, ok : BOOLEAN]
    BY <2>1, FetchFacts DEF OciInv
  <2>3. UNCHANGED <<image, tree, scratch, dest, stuck>>
        /\ fetch.pc \in {"manifest", "mkdtemp", "download", "apply", "rename"}
    BY <1>6 DEF FetchFails, DownloadFails, ApplyFails, NotAssembled
  <2>4. OciTypeOK'
    BY <2>2, <2>3 DEF OciInv, OciTypeOK
  <2>5. KeptInv'
    BY <2>1, <2>2, <2>3 DEF OciInv, KeptInv
  <2> QED BY <2>2, <2>4, <2>5, OciRest
<1>7. CASE TreeAllowed \/ TreeRefused
  <2>1. fetch'.pc = "cleanup" /\ fetch'.ok \in {fetch.ok, FALSE} /\ fetch.pc = "walk"
        /\ fetch' \in [pc : FetchPcs, layer : 0 .. MaxLayers, ok : BOOLEAN]
        /\ (TreeAllowed => fetch'.ok = fetch.ok) /\ (TreeRefused => ~fetch'.ok)
    <3>1. fetch.pc = "walk" /\ (TreeAllowed => FetchGo("cleanup")) /\ (TreeRefused => Throw("cleanup"))
      BY <1>7 DEF TreeAllowed, TreeRefused
    <3>2. fetch.ok
      BY <3>1 DEF OciInv, KeptInv
    <3>3. CASE FetchGo("cleanup") /\ ~TreeRefused
      BY <3>1, <3>2, <3>3, FetchFacts DEF OciInv
    <3>4. CASE Throw("cleanup")
      <4>1. ~TreeAllowed
        BY <3>2, <3>4, FetchFacts DEF TreeAllowed, OciInv
      <4> QED BY <3>1, <3>4, <4>1, FetchFacts DEF OciInv
    <3> QED BY <1>7, <3>1, <3>3, <3>4
  <2>2. OciTypeOK'
    BY <1>7, <2>1 DEF TreeAllowed, TreeRefused, OciInv, OciTypeOK
  <2>3. KeptInv'
    BY <1>7, <2>1 DEF TreeAllowed, TreeRefused, OciInv, KeptInv
  <2> QED BY <2>1, <2>2, <2>3, OciRest
<1>8. CASE Cleanup
  <2>1. /\ fetch.pc = "cleanup" /\ fetch'.pc \in {"pulled", "failed"}
        /\ fetch'.pc = "pulled" => fetch.ok /\ fetch'.ok /\ scratch' = {} /\ stuck' = stuck
        /\ fetch'.pc = "failed" => \/ ~fetch.ok /\ scratch' = {} /\ stuck' = stuck
                                   \/ stuck' = TRUE
        /\ fetch' \in [pc : FetchPcs, layer : 0 .. MaxLayers, ok : BOOLEAN]
        /\ scratch' \in {{}, {"extract"}, scratch}
        /\ UNCHANGED <<image, tree, dest>>
    <3>1. CASE scratch' = {} /\ FetchGo(IF fetch.ok THEN "pulled" ELSE "failed") /\ UNCHANGED stuck
      <4>1. PICK pc \in {"pulled", "failed"} :
              FetchGo(pc) /\ (pc = "pulled" => fetch.ok) /\ (pc = "failed" => ~fetch.ok)
        BY <3>1
      <4>2. fetch'.pc = pc /\ fetch'.ok = fetch.ok
            /\ fetch' \in [pc : FetchPcs, layer : 0 .. MaxLayers, ok : BOOLEAN]
        BY <4>1, FetchFacts DEF OciInv
      <4> QED BY <1>8, <3>1, <4>1, <4>2 DEF Cleanup
    <3>2. CASE scratch' \in {{"extract"}, scratch} /\ Throw("failed") /\ stuck' = TRUE
      <4>1. fetch'.pc = "failed"
            /\ fetch' \in [pc : FetchPcs, layer : 0 .. MaxLayers, ok : BOOLEAN]
        BY <3>2, FetchFacts DEF OciInv
      <4> QED BY <1>8, <3>2, <4>1 DEF Cleanup
    <3> QED BY <1>8, <3>1, <3>2 DEF Cleanup
  <2>2. OciTypeOK'
    BY <1>8, <2>1 DEF Cleanup, OciInv, OciTypeOK
  <2>3. KeptInv'
    BY <2>1 DEF OciInv, KeptInv
  <2> QED BY <2>1, <2>2, <2>3, OciRest
<1> QED BY <1>1, <1>2, <1>3, <1>4, <1>5, <1>6, <1>7, <1>8 DEF OciSteps

-----------------------------------------------------------------------------
(* The gate.                                                                 *)

Pcs == {"off", "create", "start", "unstarted", "read", "answer", "stop", "stopped",
        "delete", "end"}
Awaits == {"turn", "reap", "launch", "missing", "undo", "stop", "engine"}

\* A job of the runner's is the one it waits for, or the start it has abandoned.
Waits(kind, pc, d) ==
  \/ kind = "try" /\ pc \in {"start", "stop"}
  \/ kind = "stop" /\ pc = "stop"
  \/ kind = "drain" /\ pc = "delete" /\ d = "drain"

\* js: the lane; pc: the runner; d: its delete.
JobsOK(js, pc, d) ==
  /\ js \in Seq(Jobs)
  /\ \A n \in 1 .. Len(js) : js[n].by = Gate => Waits(js[n].kind, pc, d)
  /\ \A m, n \in 1 .. Len(js) :
       m < n /\ js[m].by = Gate /\ js[n].by = Gate => js[m].kind = "try" /\ js[n].kind = "stop"

\* The head of the lane, at its await, has the branch and its compute to itself.
HeadOK ==
  /\ lane.jobs = <<>> => lane.at = "turn"
  /\ lane.at \in {"reap", "launch", "missing", "undo"} => First.kind \in {"try", "start"}
  /\ lane.at = "stop" => First.kind \in {"stop", "drain"}
  /\ lane.at = "engine" => First.kind = "drain"
  /\ lane.at # "turn" => "branch" \in there
  /\ lane.at = "reap" => compute.st = "failed"
  /\ lane.at \in {"launch", "missing", "engine"} => compute.st = "stopped"
  /\ lane.at = "turn" /\ compute.st = "running" => endpoint = "running"

ComputeOK ==
  /\ compute.st = "stopped" <=> compute = Down
  /\ compute # Down => compute.on # "none" /\ "branch" \in there
  /\ compute.st = "running" /\ ~touched => compute.on = "candidate"

\* The runner, its delete, and what its outcome stands for.
RunnerOK ==
  /\ runner.pc = "create" => there = {} /\ lane = Free /\ \A o \in Owners : deletes[o] = "no"
  /\ deletes[Gate] # "no" => runner.pc = "delete"
  /\ \A o \in Owners : deletes[o] = "tenant" => "branch" \notin there
  /\ up /\ ~left /\ (runner.pc \in {"off", "end"} \/ (runner.pc = "delete" /\ deletes[Gate] = "no"))
       => there = {}
  /\ ~touched => ran \subseteq {"candidate"}
  /\ runner.ok \/ verdict = "ready" => ran # {}
  /\ verdict = "open" => runner.pc # "off"

\* The boot, before the daemon listens.
BootOK ==
  ~up => /\ runner = Off /\ lane = Free /\ compute = Down
         /\ \A o \in Owners : deletes[o] = "no"

GateInv ==
  /\ GateTypeOK
  /\ lane = [at |-> lane.at, jobs |-> lane.jobs]
  /\ JobsOK(lane.jobs, runner.pc, deletes[Gate])
  /\ HeadOK /\ ComputeOK /\ RunnerOK /\ BootOK

\* No gate of another pull is open while one downloads.
Joint == fetch.pc # "idle" => Quiet /\ verdict = "none"

Inv == OciInv /\ GateInv /\ Joint

NoGate(js) == \A n \in 1 .. Len(js) : js[n].by # Gate

LEMMA Pushed ==
  ASSUME NEW js \in Seq(Jobs), NEW j \in Jobs
  PROVE  /\ js \o <<j>> \in Seq(Jobs) /\ Len(js \o <<j>>) = Len(js) + 1
         /\ Len(js) \in Nat
         /\ (js \o <<j>>)[Len(js) + 1] = j
         /\ \A n \in 1 .. Len(js) : (js \o <<j>>)[n] = js[n]
OBVIOUS

LEMMA Popped ==
  ASSUME NEW js \in Seq(Jobs), js # <<>>
  PROVE  /\ Tail(js) \in Seq(Jobs) /\ Len(js) \in Nat \ {0} /\ Len(Tail(js)) = Len(js) - 1
         /\ \A n \in 1 .. Len(Tail(js)) : Tail(js)[n] = js[n + 1] /\ n + 1 \in 1 .. Len(js)
         /\ js[1] \in Jobs /\ 1 \in 1 .. Len(js)
OBVIOUS

LEMMA NoGateOK ==
  ASSUME NEW js \in Seq(Jobs), NoGate(js), NEW pc, NEW d
  PROVE  JobsOK(js, pc, d)
BY DEF NoGate, JobsOK

LEMMA IsNoGate ==
  ASSUME NEW js, NEW pc, NEW d, JobsOK(js, pc, d),
         pc \notin {"start", "stop"}, pc = "delete" => d # "drain"
  PROVE  NoGate(js) /\ js \in Seq(Jobs)
BY DEF NoGate, JobsOK, Waits

LEMMA PushClient ==
  ASSUME GateAssumption, NEW js, NEW pc, NEW d, JobsOK(js, pc, d),
         NEW j \in Jobs, j.by # Gate
  PROVE  JobsOK(js \o <<j>>, pc, d)
<1>1. js \in Seq(Jobs)
  BY DEF JobsOK
<1>2. \A n \in 1 .. Len(js \o <<j>>) :
        \/ n \in 1 .. Len(js) /\ (js \o <<j>>)[n] = js[n]
        \/ (js \o <<j>>)[n] = j
  BY <1>1, Pushed
<1>3. js \o <<j>> \in Seq(Jobs)
  BY <1>1, Pushed
<1> QED BY <1>2, <1>3 DEF JobsOK

LEMMA PushGate ==
  ASSUME NEW js \in Seq(Jobs), NoGate(js), NEW pc, NEW d, NEW j \in Jobs, Waits(j.kind, pc, d)
  PROVE  JobsOK(js \o <<j>>, pc, d)
<1>1. \A n \in 1 .. Len(js \o <<j>>) :
        \/ n \in 1 .. Len(js) /\ (js \o <<j>>)[n].by # Gate
        \/ n = Len(js) + 1 /\ (js \o <<j>>)[n] = j
  BY Pushed DEF NoGate
<1>2. js \o <<j>> \in Seq(Jobs) /\ Len(js \o <<j>>) = Len(js) + 1 /\ Len(js) \in Nat
  BY Pushed
<1> QED BY <1>1, <1>2 DEF JobsOK

\* The abort: its stop queues behind the start it gives up.
LEMMA PushStop ==
  ASSUME NEW js, NEW d, NEW e, NEW pc \in {"start", "read", "answer"}, JobsOK(js, pc, d),
         NEW j \in Jobs, j.by = Gate, j.kind = "stop"
  PROVE  JobsOK(js \o <<j>>, "stop", e)
<1>1. js \in Seq(Jobs) /\ \A n \in 1 .. Len(js) : js[n].by = Gate => js[n].kind = "try"
  BY DEF JobsOK, Waits
<1>2. \A n \in 1 .. Len(js \o <<j>>) :
        \/ n \in 1 .. Len(js) /\ (js \o <<j>>)[n] = js[n]
        \/ n = Len(js) + 1 /\ (js \o <<j>>)[n] = j
  BY <1>1, Pushed
<1>3. js \o <<j>> \in Seq(Jobs) /\ Len(js \o <<j>>) = Len(js) + 1 /\ Len(js) \in Nat
  BY <1>1, Pushed
<1>4. \A n \in 1 .. Len(js \o <<j>>) :
        (js \o <<j>>)[n].by = Gate => Waits((js \o <<j>>)[n].kind, "stop", e)
  BY <1>1, <1>2 DEF Waits
<1>5. ASSUME NEW m \in 1 .. Len(js \o <<j>>), NEW n \in 1 .. Len(js \o <<j>>), m < n,
             (js \o <<j>>)[m].by = Gate, (js \o <<j>>)[n].by = Gate
      PROVE  (js \o <<j>>)[m].kind = "try" /\ (js \o <<j>>)[n].kind = "stop"
  <2>1. m \in 1 .. Len(js) /\ (js \o <<j>>)[m] = js[m]
    BY <1>2, <1>3, <1>5
  <2>2. CASE n \in 1 .. Len(js) /\ (js \o <<j>>)[n] = js[n]
    BY <1>1, <1>5, <2>1, <2>2 DEF JobsOK
  <2>3. CASE (js \o <<j>>)[n] = j
    BY <1>1, <1>5, <2>1, <2>3
  <2> QED BY <1>2, <2>2, <2>3
<1> QED BY <1>3, <1>4, <1>5 DEF JobsOK

LEMMA Pop ==
  ASSUME NEW js, NEW pc, NEW d, JobsOK(js, pc, d), js # <<>>
  PROVE  /\ JobsOK(Tail(js), pc, d)
         /\ js[1].by = Gate => Waits(js[1].kind, pc, d)
         /\ js[1].by = Gate /\ (js[1].kind # "try" \/ pc # "stop") => NoGate(Tail(js))
<1>1. js \in Seq(Jobs)
  BY DEF JobsOK
<1>2. JobsOK(Tail(js), pc, d)
  <2>1. Tail(js) \in Seq(Jobs)
    BY <1>1, Popped
  <2>2. ASSUME NEW n \in 1 .. Len(Tail(js)), Tail(js)[n].by = Gate
        PROVE  Waits(Tail(js)[n].kind, pc, d)
    BY <1>1, <2>2, Popped DEF JobsOK
  <2>3. ASSUME NEW m \in 1 .. Len(Tail(js)), NEW n \in 1 .. Len(Tail(js)), m < n,
               Tail(js)[m].by = Gate, Tail(js)[n].by = Gate
        PROVE  Tail(js)[m].kind = "try" /\ Tail(js)[n].kind = "stop"
    <3>1. m + 1 \in 1 .. Len(js) /\ n + 1 \in 1 .. Len(js) /\ m + 1 < n + 1
          /\ Tail(js)[m] = js[m + 1] /\ Tail(js)[n] = js[n + 1]
      BY <1>1, <2>3, Popped
    <3> QED BY <2>3, <3>1 DEF JobsOK
  <2> QED BY <2>1, <2>2, <2>3 DEF JobsOK
<1>3. js[1].by = Gate => Waits(js[1].kind, pc, d)
  BY <1>1, Popped DEF JobsOK
<1>4. ASSUME js[1].by = Gate, js[1].kind # "try" \/ pc # "stop", NEW n \in 1 .. Len(Tail(js)),
             Tail(js)[n].by = Gate
      PROVE  FALSE
  <2>1. 1 \in 1 .. Len(js) /\ n + 1 \in 1 .. Len(js) /\ 1 < n + 1 /\ js[n + 1].by = Gate
    BY <1>1, <1>4, Popped
  <2>2. js[1].kind = "try" /\ js[n + 1].kind = "stop"
    BY <1>4, <2>1 DEF JobsOK
  <2> QED BY <1>4, <2>1, <2>2 DEF JobsOK, Waits
<1> QED BY <1>2, <1>3, <1>4 DEF NoGate

-----------------------------------------------------------------------------
(* Turns of the lane.                                                        *)

LEMMA GateFacts ==
  ASSUME GateAssumption, GateInv
  PROVE  /\ lane.jobs \in Seq(Jobs) /\ Gate \in Owners /\ Queries \in Nat
         /\ lane.jobs # <<>> => up /\ First \in Jobs
         /\ runner \in [pc : Pcs, query : 0 .. Queries, aborted : BOOLEAN, ok : BOOLEAN]
         /\ deletes \in [Owners -> {"no", "drain", "tenant"}]
<1>1. lane.jobs \in Seq(Jobs)
  BY DEF GateInv, JobsOK
<1>2. lane.jobs # <<>> => First \in Jobs
  BY <1>1, Popped DEF First
<1>3. lane.jobs # <<>> => up
  BY DEF GateInv, BootOK, Free, GateTypeOK
<1> QED BY <1>1, <1>2, <1>3 DEF GateInv, GateTypeOK, Pcs, Owners, GateAssumption

\* What a job's step may change besides the lane.
JobStep ==
  /\ UnchangedByJobs
  /\ there' \in {there, there \ {"branch"}}
  /\ compute' \in [st : {"stopped", "running", "failed"}, on : {"none", "candidate", "active"}]
  /\ endpoint' \in {"stopped", "starting", "running", "stopping", "failed"}
  /\ touched' \in BOOLEAN /\ (touched => touched')
  /\ ComputeOK'

\* The job at the head awaits something else.
LEMMA HeadMoves ==
  ASSUME GateAssumption, GateInv, lane.jobs # <<>>, JobStep, there' = there,
         NEW at \in Awaits, Await(at), UNCHANGED <<runner, deletes, left>>, HeadOK'
  PROVE  GateInv'
<1>1. lane' = [at |-> at, jobs |-> lane.jobs] /\ lane'.at = at /\ lane'.jobs = lane.jobs
  BY DEF Await, GateInv
<1>2. GateTypeOK'
  BY <1>1 DEF GateInv, GateTypeOK, JobStep, UnchangedByJobs, Awaits
<1>3. RunnerOK'
  <2>1. runner.pc # "create"
    BY DEF GateInv, RunnerOK, Free
  <2>2. /\ ~touched' => ran' \subseteq {"candidate"}
        /\ runner'.ok \/ verdict' = "ready" => ran' # {}
        /\ verdict' = "open" => runner'.pc # "off"
    BY DEF GateInv, RunnerOK, JobStep, UnchangedByJobs
  <2>3. /\ deletes'[Gate] # "no" => runner'.pc = "delete"
        /\ \A o \in Owners : deletes'[o] = "tenant" => "branch" \notin there'
        /\ up' /\ ~left' /\ (runner'.pc \in {"off", "end"} \/ (runner'.pc = "delete" /\ deletes'[Gate] = "no"))
             => there' = {}
    BY DEF GateInv, RunnerOK, JobStep, UnchangedByJobs
  <2> QED BY <2>1, <2>2, <2>3 DEF RunnerOK
<1>4. BootOK'
  BY GateFacts DEF BootOK, JobStep, UnchangedByJobs
<1> QED BY <1>1, <1>2, <1>3, <1>4 DEF GateInv, JobStep

\* It returns or throws: its runner is told, or the delete whose turn it was.
LEMMA HeadEnds ==
  ASSUME GateAssumption, GateInv, lane.jobs # <<>>, JobStep,
         NEW ok \in BOOLEAN, EndJob(ok),
         compute'.st = "running" => endpoint' = "running",
         First.kind = "drain" /\ ok => "branch" \notin there'
  PROVE  GateInv'
<1>0. /\ lane.jobs \in Seq(Jobs) /\ up /\ First \in Jobs /\ First = lane.jobs[1]
      /\ runner \in [pc : Pcs, query : 0 .. Queries, aborted : BOOLEAN, ok : BOOLEAN]
      /\ deletes \in [Owners -> {"no", "drain", "tenant"}] /\ Gate \in Owners
      /\ First.by \in Owners /\ 1 \in 0 .. Queries
  BY GateFacts DEF First, Jobs, Owners, GateAssumption
<1>1. /\ lane' = [at |-> "turn", jobs |-> Tail(lane.jobs)]
      /\ lane'.at = "turn" /\ lane'.jobs = Tail(lane.jobs)
  BY DEF EndJob
<1>2. /\ JobsOK(Tail(lane.jobs), runner.pc, deletes[Gate])
      /\ First.by = Gate => Waits(First.kind, runner.pc, deletes[Gate])
      /\ First.by = Gate /\ (First.kind # "try" \/ runner.pc # "stop") => NoGate(Tail(lane.jobs))
      /\ Tail(lane.jobs) \in Seq(Jobs)
  BY <1>0, Pop, Popped DEF GateInv
<1>3. /\ runner' \in [pc : Pcs, query : 0 .. Queries, aborted : BOOLEAN, ok : BOOLEAN]
      /\ runner'.ok = runner.ok
      /\ \/ First.by = Gate /\ First.kind = "try" /\ runner.pc = "start"
            /\ runner'.pc \in {"read", "unstarted"}
         \/ First.by = Gate /\ First.kind = "stop" /\ runner'.pc = "stopped" /\ runner.pc = "stop"
         \/ runner' = runner /\ ~(First.by = Gate /\ First.kind = "try" /\ runner.pc = "start")
            /\ ~(First.by = Gate /\ First.kind = "stop")
  <2>1. CASE First.by = Gate /\ First.kind = "try" /\ runner.pc = "start"
    <3>1. PICK p \in {"read", "unstarted"}, q \in {0, 1} :
            runner' = [runner EXCEPT !.pc = p, !.query = q]
      BY <2>1 DEF EndJob, Told
    <3>2. q \in 0 .. Queries /\ p \in Pcs
      BY <1>0 DEF Pcs
    <3>3. runner' \in [pc : Pcs, query : 0 .. Queries, aborted : BOOLEAN, ok : BOOLEAN]
          /\ runner'.ok = runner.ok /\ runner'.pc = p
      BY <1>0, <3>1, <3>2
    <3> QED BY <2>1, <3>1, <3>3
  <2>2. CASE First.by = Gate /\ First.kind = "stop"
    <3>1. runner' = [runner EXCEPT !.pc = "stopped"]
      BY <2>2 DEF EndJob, Told
    <3> QED BY <1>0, <1>2, <2>2, <3>1 DEF Pcs, Waits
  <2>3. CASE ~(First.by = Gate /\ First.kind = "try" /\ runner.pc = "start")
             /\ ~(First.by = Gate /\ First.kind = "stop")
    BY <1>0, <2>3 DEF EndJob, Told
  <2> QED BY <2>1, <2>2, <2>3
<1>4. /\ deletes' \in [Owners -> {"no", "drain", "tenant"}]
      /\ \A o \in Owners : \/ deletes'[o] = deletes[o]
                           \/ /\ o = First.by /\ First.kind = "drain"
                              /\ deletes'[o] = IF ok THEN "tenant" ELSE "no"
      /\ First.kind = "drain" => deletes'[First.by] = IF ok THEN "tenant" ELSE "no"
      /\ left' = (left \/ (First.kind = "drain" /\ First.by = Gate /\ ~ok))
      /\ left' \in BOOLEAN
  BY <1>0 DEF EndJob, DeleteTold, GateInv, GateTypeOK
<1>5. GateTypeOK'
  <2>1. \A n \in DOMAIN Tail(lane.jobs) : Tail(lane.jobs)[n] \in Jobs
    BY <1>2
  <2> QED BY <1>1, <1>3, <1>4, <2>1
          DEF GateInv, GateTypeOK, JobStep, UnchangedByJobs, Pcs
<1>6. JobsOK(Tail(lane.jobs), runner'.pc, deletes'[Gate])
  <2>1. CASE First.by # Gate
    BY <1>0, <1>2, <1>3, <1>4, <2>1
  <2>2. CASE First.by = Gate /\ First.kind = "try" /\ runner.pc = "stop"
    BY <1>0, <1>2, <1>3, <1>4, <2>2
  <2>3. CASE First.by = Gate /\ (First.kind # "try" \/ runner.pc # "stop")
    BY <1>2, <2>3, NoGateOK
  <2> QED BY <2>1, <2>2, <2>3
<1>7. HeadOK' /\ ComputeOK'
  BY <1>1 DEF HeadOK, JobStep
<1>8. RunnerOK'
  <2>1. runner.pc # "create" /\ (runner'.pc = "create" => runner.pc = "create")
    BY <1>3 DEF GateInv, RunnerOK, Free
  <2>2. deletes'[Gate] # "no" => runner'.pc = "delete"
    <3>1. deletes'[Gate] # "no" => deletes[Gate] # "no"
      BY <1>0, <1>2, <1>4 DEF Waits
    <3> QED BY <1>3, <3>1, <1>2 DEF GateInv, RunnerOK, Waits
  <2>3. \A o \in Owners : deletes'[o] = "tenant" => "branch" \notin there'
    BY <1>4 DEF GateInv, RunnerOK, JobStep
  <2>4. up' /\ ~left' /\ (runner'.pc \in {"off", "end"} \/ (runner'.pc = "delete" /\ deletes'[Gate] = "no"))
          => there' = {}
    <3>1. SUFFICES ASSUME ~left', runner'.pc \in {"off", "end"} \/ (runner'.pc = "delete" /\ deletes'[Gate] = "no")
                   PROVE  there' = {}
      OBVIOUS
    <3>2. runner' = runner /\ ~left
      BY <1>3, <1>4, <3>1
    <3>3. runner.pc = "delete" => deletes[Gate] = "no"
      BY <1>0, <1>4, <3>1, <3>2
    <3>4. there = {}
      BY <1>0, <3>1, <3>2, <3>3 DEF GateInv, RunnerOK
    <3> QED BY <3>4 DEF JobStep
  <2>5. /\ ~touched' => ran' \subseteq {"candidate"}
        /\ runner'.ok \/ verdict' = "ready" => ran' # {}
        /\ verdict' = "open" => runner'.pc # "off"
    <3>1. runner'.pc = "off" => runner.pc = "off"
      BY <1>3
    <3>2. (~touched' => ~touched) /\ ran' = ran /\ verdict' = verdict
      BY DEF JobStep, UnchangedByJobs
    <3> QED BY <1>3, <3>1, <3>2 DEF GateInv, RunnerOK
  <2> QED BY <2>1, <2>2, <2>3, <2>4, <2>5 DEF RunnerOK
<1>9. BootOK'
  BY <1>0 DEF BootOK, JobStep, UnchangedByJobs
<1> QED BY <1>1, <1>5, <1>6, <1>7, <1>8, <1>9 DEF GateInv

LEMMA Still ==
  ASSUME GateInv, UnchangedByJobs, UNCHANGED <<there, compute, touched>>,
         endpoint' \in {"stopped", "starting", "running", "stopping", "failed"}
  PROVE  JobStep
BY DEF JobStep, GateInv, GateTypeOK, ComputeOK

LEMMA DownStep ==
  ASSUME GateInv, UnchangedByJobs, there' \in {there, there \ {"branch"}}, compute' = Down,
         endpoint' \in {"stopped", "starting", "running", "stopping", "failed"},
         touched' \in BOOLEAN, touched => touched'
  PROVE  JobStep /\ compute'.st = "stopped"
BY DEF JobStep, GateInv, ComputeOK, Down

\* The compute that comes up is the candidate's, unless a client asked for it.
LEMMA UpStep ==
  ASSUME GateAssumption, GateInv, lane.jobs # <<>>, lane.at \in {"launch", "missing"},
         UnchangedByJobs, UNCHANGED there, compute' = [st |-> "running", on |-> Target], Touch,
         endpoint' \in {"stopped", "starting", "running", "stopping", "failed"}
  PROVE  JobStep /\ compute'.st = "running"
<1>1. First \in Jobs /\ First.kind \in {"try", "start"} /\ "branch" \in there
  BY GateFacts DEF GateInv, HeadOK
<1>2. First.by = Gate => First.kind = "try"
  BY <1>1, Pop DEF GateInv, First, Waits
<1>3. touched' \in BOOLEAN /\ (touched => touched') /\ (~touched' => Target = "candidate")
  BY <1>2 DEF Touch, Target, GateInv, GateTypeOK
<1>4. compute'.st = "running" /\ compute'.on \in {"candidate", "active"} /\ compute' # Down
  BY DEF Target, Down
<1> QED BY <1>1, <1>3, <1>4 DEF JobStep, ComputeOK, Target

LEMMA TurnsInv == ASSUME GateAssumption, GateInv, Turns PROVE GateInv'
<1> USE DEF MyTurn, At
<1>0. /\ endpoint \in {"stopped", "starting", "running", "stopping", "failed"}
      /\ touched \in BOOLEAN /\ lane.jobs \in Seq(Jobs)
  BY GateFacts DEF GateInv, GateTypeOK
<1>1. CASE Gone
  <2>1. JobStep /\ lane.jobs # <<>> /\ EndJob(First.kind = "drain") /\ "branch" \notin there'
    BY <1>0, <1>1, Still DEF Gone
  <2>2. compute'.st # "running"
    BY <1>1 DEF Gone, GateInv, ComputeOK, Down
  <2>3. (First.kind = "drain") \in BOOLEAN
    OBVIOUS
  <2> QED BY <2>1, <2>2, <2>3, HeadEnds
<1>2. CASE Already
  <2>1. JobStep /\ lane.jobs # <<>> /\ EndJob(TRUE) /\ First.kind # "drain"
    BY <1>0, <1>2, Still DEF Already
  <2>2. endpoint' = "running"
    BY <1>2 DEF Already, GateInv, HeadOK
  <2> QED BY <2>1, <2>2, HeadEnds
<1>3. CASE Reap
  <2>1. JobStep /\ lane.jobs # <<>> /\ Await("reap") /\ there' = there
        /\ UNCHANGED <<runner, deletes, left>>
    BY <1>0, <1>3, Still DEF Reap
  <2>2. HeadOK'
    BY <1>3 DEF Reap, Await, GateInv, HeadOK, First
  <2> QED BY <2>1, <2>2, HeadMoves DEF Awaits
<1>4. CASE Reaped
  <2>1. lane.jobs # <<>> /\ there' = there /\ lane.at = "reap"
    BY <1>4 DEF Reaped
  <2>2. First.kind # "drain"
    BY <2>1 DEF GateInv, HeadOK
  <2>3. JobStep /\ compute'.st = "stopped"
    <3>1. endpoint' = endpoint /\ compute' = Down /\ UnchangedByJobs /\ touched' = touched
      BY <1>4 DEF Reaped
    <3> QED BY <1>0, <2>1, <3>1, DownStep
  <2>4. CASE EndJob(FALSE)
    BY <2>1, <2>2, <2>3, <2>4, HeadEnds
  <2>5. CASE Await("turn") /\ UNCHANGED <<runner, deletes, left>>
    <3>1. HeadOK'
      BY <2>1, <2>3, <2>5 DEF Await, GateInv, HeadOK
    <3> QED BY <2>1, <2>3, <2>5, <3>1, HeadMoves DEF Awaits
  <2> QED BY <1>4, <2>4, <2>5 DEF Reaped
<1>5. CASE Launch
  <2>1. PICK at \in {"missing", "launch"} : Await(at)
    BY <1>5 DEF Launch
  <2>2. JobStep /\ lane.jobs # <<>> /\ there' = there /\ UNCHANGED <<runner, deletes, left>>
    BY <1>0, <1>5, Still DEF Launch
  <2>3. HeadOK'
    BY <1>5, <2>1 DEF Launch, Await, GateInv, HeadOK, First
  <2> QED BY <2>1, <2>2, <2>3, HeadMoves DEF Awaits
<1>6. CASE Launched
  <2>1. lane.jobs # <<>> /\ lane.at = "launch" /\ EndJob(TRUE) /\ endpoint' = "running"
    BY <1>6 DEF Launched
  <2>2. First.kind # "drain"
    BY <2>1 DEF GateInv, HeadOK
  <2>3. JobStep
    BY <1>6, UpStep DEF Launched
  <2> QED BY <2>1, <2>2, <2>3, HeadEnds
<1>7. CASE LaunchFails
  <2>1. JobStep /\ lane.jobs # <<>> /\ lane.at \in {"launch", "missing"} /\ EndJob(FALSE)
        /\ compute' = compute
    BY <1>0, <1>7, Still DEF LaunchFails
  <2>2. First.kind # "drain" /\ compute'.st # "running"
    BY <2>1 DEF GateInv, HeadOK
  <2> QED BY <2>1, <2>2, HeadEnds
<1>8. CASE PersistFails
  <2>1. lane.jobs # <<>> /\ lane.at = "launch" /\ Await("undo") /\ there' = there
        /\ UNCHANGED <<runner, deletes, left>>
    BY <1>8 DEF PersistFails
  <2>2. JobStep
    <3>1. endpoint' = endpoint
      BY <1>8 DEF PersistFails
    <3> QED BY <1>0, <1>8, <2>1, <3>1, UpStep DEF PersistFails
  <2>3. HeadOK'
    BY <2>1 DEF Await, GateInv, HeadOK, First
  <2> QED BY <2>1, <2>2, <2>3, HeadMoves DEF Awaits
<1>9. CASE Undone
  <2>1. lane.jobs # <<>> /\ lane.at = "undo" /\ EndJob(FALSE)
    BY <1>9 DEF Undone
  <2>2. First.kind # "drain"
    BY <2>1 DEF GateInv, HeadOK
  <2>3. JobStep /\ compute'.st = "stopped"
    BY <1>0, <1>9, DownStep DEF Undone
  <2> QED BY <2>1, <2>2, <2>3, HeadEnds
<1>10. CASE BeginStop
  <2>1. JobStep /\ lane.jobs # <<>> /\ Await("stop") /\ there' = there
        /\ UNCHANGED <<runner, deletes, left>>
    BY <1>0, <1>10, Still DEF BeginStop
  <2>2. HeadOK'
    BY <1>10 DEF BeginStop, Await, GateInv, HeadOK, First
  <2> QED BY <2>1, <2>2, HeadMoves DEF Awaits
<1>11. CASE Stopped
  <2>1. lane.jobs # <<>> /\ lane.at = "stop" /\ there' = there /\ "branch" \in there
    BY <1>11 DEF Stopped, GateInv, HeadOK
  <2>2. JobStep /\ compute'.st = "stopped"
    <3>1. touched' \in BOOLEAN /\ (touched => touched')
      BY <1>0, <1>11 DEF Stopped, Touch
    <3> QED BY <1>0, <1>11, <3>1, DownStep DEF Stopped
  <2>3. CASE First.kind = "stop" /\ (EndJob(TRUE) \/ EndJob(FALSE))
    BY <2>1, <2>2, <2>3, HeadEnds
  <2>4. CASE First.kind = "drain" /\ Await("engine") /\ UNCHANGED <<runner, deletes, left>>
    <3>1. HeadOK'
      BY <2>1, <2>2, <2>4 DEF Await, GateInv, HeadOK, First
    <3> QED BY <2>1, <2>2, <2>4, <3>1, HeadMoves DEF Awaits
  <2>5. CASE First.kind = "drain" /\ EndJob(FALSE)
    BY <2>1, <2>2, <2>5, HeadEnds
  <2> QED BY <1>11, <2>3, <2>4, <2>5 DEF Stopped
<1>12. CASE Drained
  <2>1. lane.jobs # <<>> /\ lane.at = "engine" /\ UNCHANGED <<compute, endpoint, touched>>
        /\ UnchangedByJobs
    BY <1>12 DEF Drained
  <2>2. compute = Down
    BY <2>1 DEF GateInv, HeadOK, ComputeOK
  <2>3. \E ok \in BOOLEAN : EndJob(ok) /\ there' = IF ok THEN there \ {"branch"} ELSE there
    BY <1>12 DEF Drained
  <2>4. PICK ok \in BOOLEAN : EndJob(ok) /\ there' = IF ok THEN there \ {"branch"} ELSE there
    BY <2>3
  <2>5. JobStep /\ compute'.st = "stopped"
    BY <1>0, <2>1, <2>2, <2>4, DownStep
  <2> QED BY <2>1, <2>4, <2>5, HeadEnds
<1> QED BY <1>1, <1>2, <1>3, <1>4, <1>5, <1>6, <1>7, <1>8, <1>9, <1>10, <1>11, <1>12 DEF Turns

-----------------------------------------------------------------------------
(* Steps of the runner.                                                      *)

\* The lane is as it was, or one job longer.
Longer(js) == js = lane.jobs \/ \E j \in Jobs : js = lane.jobs \o <<j>>

LEMMA Appended ==
  ASSUME GateAssumption, GateInv, NEW js, Longer(js), lane' = [lane EXCEPT !.jobs = js],
         UNCHANGED <<there, compute, endpoint>>
  PROVE  /\ HeadOK' /\ lane' = [at |-> lane'.at, jobs |-> lane'.jobs]
         /\ lane'.at = lane.at /\ lane'.jobs = js /\ js \in Seq(Jobs)
<1>1. lane' = [at |-> lane.at, jobs |-> js] /\ lane'.at = lane.at /\ lane'.jobs = js
  BY DEF GateInv
<1>2. lane.jobs \in Seq(Jobs)
  BY GateFacts
<1>3. js \in Seq(Jobs) /\ (lane.jobs # <<>> => js # <<>> /\ js[1] = lane.jobs[1])
  <2>1. CASE js = lane.jobs
    BY <1>2, <2>1
  <2>2. ASSUME NEW j \in Jobs, js = lane.jobs \o <<j>>
        PROVE  js \in Seq(Jobs) /\ (lane.jobs # <<>> => js # <<>> /\ js[1] = lane.jobs[1])
    <3>1. lane.jobs # <<>> => 1 \in 1 .. Len(lane.jobs)
      BY <1>2, Popped
    <3> QED BY <1>2, <2>2, <3>1, Pushed
  <2> QED BY <2>1, <2>2 DEF Longer
<1>4. HeadOK'
  BY <1>1, <1>3 DEF GateInv, HeadOK, First
<1> QED BY <1>1, <1>3, <1>4

\* What a step of the runner or of a client changes besides.
LEMMA Grows ==
  ASSUME GateAssumption, GateInv, UNCHANGED <<there, compute, endpoint, build, up, touched, left>>,
         up, NEW js, Longer(js), lane' = [lane EXCEPT !.jobs = js],
         verdict' \in {"none", "open", "rm", "ready", "failed"}, ran' \subseteq {"candidate", "active"},
         runner' \in [pc : Pcs, query : 0 .. Queries, aborted : BOOLEAN, ok : BOOLEAN],
         deletes' \in [Owners -> {"no", "drain", "tenant"}],
         JobsOK(js, runner'.pc, deletes'[Gate]), RunnerOK'
  PROVE  GateInv'
<1>1. /\ HeadOK' /\ lane' = [at |-> lane'.at, jobs |-> lane'.jobs]
      /\ lane'.at = lane.at /\ lane'.jobs = js /\ js \in Seq(Jobs)
  BY Appended
<1>2. GateTypeOK'
  BY <1>1 DEF GateInv, GateTypeOK, Pcs
<1>3. ComputeOK' /\ BootOK'
  BY DEF GateInv, ComputeOK, BootOK
<1> QED BY <1>1, <1>2, <1>3 DEF GateInv

\* The runner's delete begins: it is done, has a turn to wait for, or is at the tenant.
LEMMA Deleting ==
  ASSUME GateAssumption, GateInv, NoGate(lane.jobs), deletes[Gate] = "no", BeginDelete(Gate)
  PROVE  /\ Longer(lane.jobs \o DrainJob(Gate))
         /\ JobsOK(lane.jobs \o DrainJob(Gate), "delete", deletes'[Gate])
         /\ deletes' \in [Owners -> {"no", "drain", "tenant"}]
         /\ \A o \in Owners \ {Gate} : deletes'[o] = deletes[o]
         /\ deletes'[Gate] = "no" => there = {}
         /\ deletes'[Gate] = "tenant" => "branch" \notin there
<1>1. /\ lane.jobs \in Seq(Jobs) /\ Gate \in Owners
      /\ deletes \in [Owners -> {"no", "drain", "tenant"}]
      /\ there \in {{}, {"project"}, {"project", "branch"}}
  BY GateFacts DEF GateInv, GateTypeOK
<1>2. PICK d \in {"no", "drain", "tenant"} :
        /\ deletes' = [deletes EXCEPT ![Gate] = d]
        /\ d = "no" => there = {}
        /\ d = "tenant" => "branch" \notin there
        /\ d = "drain" <=> "branch" \in there
  BY <1>1 DEF BeginDelete
<1>3. /\ deletes'[Gate] = d /\ \A o \in Owners \ {Gate} : deletes'[o] = deletes[o]
      /\ deletes' \in [Owners -> {"no", "drain", "tenant"}]
  BY <1>1, <1>2
<1>4. CASE "branch" \in there
  <2>1. DrainJob(Gate) = <<Job(Gate, "drain")>> /\ Job(Gate, "drain") \in Jobs
        /\ Job(Gate, "drain").kind = "drain"
    BY <1>1, <1>4 DEF DrainJob, Job, Jobs
  <2>2. Waits("drain", "delete", d)
    BY <1>2, <1>4 DEF Waits
  <2>3. JobsOK(lane.jobs \o <<Job(Gate, "drain")>>, "delete", d)
    BY <1>1, <2>1, <2>2, PushGate
  <2> QED BY <1>2, <1>3, <2>1, <2>3 DEF Longer
<1>5. CASE "branch" \notin there
  <2>1. DrainJob(Gate) = <<>> /\ lane.jobs \o <<>> = lane.jobs
    BY <1>1, <1>5 DEF DrainJob
  <2> QED BY <1>1, <1>2, <1>3, <2>1, NoGateOK DEF Longer
<1> QED BY <1>4, <1>5

LEMMA StopJob == GateAssumption => Job(Gate, "stop") \in Jobs /\ Job(Gate, "stop").by = Gate
                                   /\ Job(Gate, "stop").kind = "stop"
BY DEF Job, Jobs, Owners

\* The finally block, with nothing of the runner's in the lane.
LEMMA Ends ==
  ASSUME GateAssumption, GateInv, runner.pc \in {"unstarted", "read", "answer"},
         NEW ok \in BOOLEAN, Finally(ok), verdict' = verdict,
         ran' \subseteq {"candidate", "active"}, ~touched => ran' \subseteq {"candidate"},
         ok => ran' # {}, ran \subseteq ran',
         UNCHANGED <<there, compute, endpoint, build, up, touched, left>>
  PROVE  GateInv'
<1>1. /\ deletes[Gate] = "no" /\ up /\ NoGate(lane.jobs) /\ lane.jobs \in Seq(Jobs)
      /\ deletes \in [Owners -> {"no", "drain", "tenant"}]
      /\ runner \in [pc : Pcs, query : 0 .. Queries, aborted : BOOLEAN, ok : BOOLEAN]
  <2>1. up /\ deletes[Gate] = "no"
    BY GateFacts DEF GateInv, RunnerOK, BootOK, Off, GateTypeOK
  <2> QED BY <2>1, GateFacts, IsNoGate DEF GateInv
<1>2. CASE runner.aborted
  <2>1. /\ runner' = [runner EXCEPT !.ok = ok, !.pc = "stop"] /\ deletes' = deletes
        /\ lane' = [lane EXCEPT !.jobs = lane.jobs \o <<Job(Gate, "stop")>>]
    BY <1>2 DEF Finally, Queued
  <2>2. /\ runner' \in [pc : Pcs, query : 0 .. Queries, aborted : BOOLEAN, ok : BOOLEAN]
        /\ runner'.pc = "stop" /\ runner'.ok = ok
    BY <1>1, <2>1 DEF Pcs
  <2>3. Longer(lane.jobs \o <<Job(Gate, "stop")>>)
        /\ JobsOK(lane.jobs \o <<Job(Gate, "stop")>>, "stop", deletes[Gate])
    BY <1>1, StopJob, PushGate DEF Longer, Waits
  <2>4. RunnerOK'
    BY <1>1, <2>1, <2>2 DEF GateInv, RunnerOK
  <2>5. verdict' \in {"none", "open", "rm", "ready", "failed"}
    BY DEF GateInv, GateTypeOK
  <2> QED BY <1>1, <2>1, <2>2, <2>3, <2>4, <2>5, Grows
<1>3. CASE ~runner.aborted
  <2>1. /\ runner' = [runner EXCEPT !.ok = ok, !.pc = "delete"] /\ BeginDelete(Gate)
        /\ lane' = [lane EXCEPT !.jobs = lane.jobs \o DrainJob(Gate)]
    BY <1>3 DEF Finally, Queued
  <2>2. /\ runner' \in [pc : Pcs, query : 0 .. Queries, aborted : BOOLEAN, ok : BOOLEAN]
        /\ runner'.pc = "delete" /\ runner'.ok = ok
    BY <1>1, <2>1 DEF Pcs
  <2>3. /\ Longer(lane.jobs \o DrainJob(Gate))
        /\ JobsOK(lane.jobs \o DrainJob(Gate), "delete", deletes'[Gate])
        /\ deletes' \in [Owners -> {"no", "drain", "tenant"}]
        /\ \A o \in Owners \ {Gate} : deletes'[o] = deletes[o]
        /\ deletes'[Gate] = "no" => there = {}
        /\ deletes'[Gate] = "tenant" => "branch" \notin there
    BY <1>1, <2>1, Deleting
  <2>4. RunnerOK'
    BY <1>1, <2>2, <2>3 DEF GateInv, RunnerOK
  <2>5. verdict' \in {"none", "open", "rm", "ready", "failed"}
    BY DEF GateInv, GateTypeOK
  <2> QED BY <1>1, <2>1, <2>2, <2>3, <2>4, <2>5, Grows
<1> QED BY <1>1, <1>2, <1>3

LEMMA CreatedInv == ASSUME GateAssumption, GateInv, Created PROVE GateInv'
<1>1. /\ runner.pc = "create" /\ lane = Free /\ compute = Down /\ up
      /\ \A o \in Owners : deletes[o] = "no"
      /\ lane.jobs = <<>> /\ lane.at = "turn" /\ Gate \in Owners /\ lane.jobs \in Seq(Jobs)
      /\ runner \in [pc : Pcs, query : 0 .. Queries, aborted : BOOLEAN, ok : BOOLEAN]
      /\ deletes \in [Owners -> {"no", "drain", "tenant"}]
  <2>1. runner.pc = "create" /\ up
    BY DEF Created, GateInv, BootOK, Off
  <2>2. lane = Free /\ there = {} /\ \A o \in Owners : deletes[o] = "no"
    BY <2>1 DEF GateInv, RunnerOK
  <2>3. compute = Down
    BY <2>2 DEF GateInv, ComputeOK
  <2> QED BY <2>1, <2>2, <2>3, GateFacts DEF Free
<1>2. NoGate(lane.jobs)
  BY <1>1 DEF NoGate
<1>3. PICK k \in {"try", "stop"}, p \in {"start", "stop"} :
        /\ (k = "try" <=> p = "start") /\ deletes' = deletes
        /\ runner'.pc = p /\ runner'.ok \in {runner.ok, FALSE}
        /\ runner' \in [pc : Pcs, query : 0 .. Queries, aborted : BOOLEAN, ok : BOOLEAN]
        /\ lane' = [lane EXCEPT !.jobs = lane.jobs \o <<Job(Gate, k)>>]
  <2>1. CASE runner.aborted
    <3>1. /\ runner' = [runner EXCEPT !.ok = FALSE, !.pc = "stop"] /\ deletes' = deletes
          /\ lane' = [lane EXCEPT !.jobs = lane.jobs \o <<Job(Gate, "stop")>>]
      BY <2>1 DEF Created, Finally, Queued
    <3> QED BY <1>1, <3>1 DEF Pcs
  <2>2. CASE ~runner.aborted
    <3>1. /\ runner' = [runner EXCEPT !.pc = "start"] /\ deletes' = deletes
          /\ lane' = [lane EXCEPT !.jobs = lane.jobs \o <<Job(Gate, "try")>>]
      BY <2>2 DEF Created, Queued
    <3> QED BY <1>1, <3>1 DEF Pcs
  <2> QED BY <1>1, <2>1, <2>2
<1> DEFINE js == lane.jobs \o <<Job(Gate, k)>>
<1>4. JobsOK(js, p, "no") /\ js \in Seq(Jobs) /\ js # <<>> /\ Job(Gate, k) \in Jobs
  <2>1. Job(Gate, k) \in Jobs /\ Job(Gate, k).kind = k /\ Waits(k, p, "no")
    BY <1>1, <1>3 DEF Job, Jobs, Waits
  <2>2. JobsOK(js, p, "no")
    BY <1>1, <1>2, <2>1, PushGate
  <2>3. js \in Seq(Jobs) /\ Len(js) = Len(lane.jobs) + 1 /\ Len(lane.jobs) \in Nat
    BY <1>1, <2>1, Pushed
  <2>4. js # <<>>
    BY <2>3
  <2> QED BY <2>1, <2>2, <2>3, <2>4
<1> HIDE DEF js
<1>5. lane' = [at |-> "turn", jobs |-> js] /\ lane'.at = "turn" /\ lane'.jobs = js
  BY <1>1, <1>3 DEF Free, js
<1>6. /\ there' = {"project", "branch"} /\ endpoint' = "stopped"
      /\ UNCHANGED <<verdict, compute, build, up, ran, touched, left>>
  BY DEF Created
<1>7. GateTypeOK'
  BY <1>3, <1>4, <1>5, <1>6 DEF GateInv, GateTypeOK, Pcs
<1>8. HeadOK' /\ ComputeOK'
  BY <1>1, <1>4, <1>5, <1>6 DEF HeadOK, ComputeOK, Down
<1>9. RunnerOK'
  BY <1>1, <1>3, <1>6 DEF GateInv, RunnerOK
<1>10. BootOK'
  BY <1>1, <1>6 DEF BootOK
<1>11. JobsOK(lane'.jobs, runner'.pc, deletes'[Gate])
  BY <1>1, <1>3, <1>4, <1>5
<1> QED BY <1>5, <1>7, <1>8, <1>9, <1>10, <1>11 DEF GateInv

LEMMA ReadInv ==
  ASSUME GateAssumption, GateInv, StartFails \/ Read \/ Answer \/ AnswerFails
  PROVE  GateInv'
<1>1. /\ ran \subseteq {"candidate", "active"} /\ (~touched => ran \subseteq {"candidate"})
      /\ verdict \in {"none", "open", "rm", "ready", "failed"}
  BY DEF GateInv, GateTypeOK, RunnerOK
<1>2. CASE StartFails \/ AnswerFails
  BY <1>1, <1>2, Ends DEF StartFails, AnswerFails
<1>3. CASE Read /\ Finally(FALSE)
  BY <1>1, <1>3, Ends DEF Read
<1>4. ASSUME runner.pc \in {"read", "answer"}, NEW p \in {"read", "answer"},
             NEW q \in 0 .. Queries, runner' = [runner EXCEPT !.pc = p, !.query = q],
             UNCHANGED <<verdict, there, compute, endpoint, lane, deletes, build, up, touched, left>>,
             ran' \subseteq {"candidate", "active"}, ~touched => ran' \subseteq {"candidate"},
             ran \subseteq ran'
      PROVE  GateInv'
  <2>1. /\ runner \in [pc : Pcs, query : 0 .. Queries, aborted : BOOLEAN, ok : BOOLEAN]
        /\ lane.jobs \in Seq(Jobs) /\ deletes \in [Owners -> {"no", "drain", "tenant"}]
        /\ lane = [lane EXCEPT !.jobs = lane.jobs]
    BY GateFacts DEF GateInv
  <2>2. /\ runner' \in [pc : Pcs, query : 0 .. Queries, aborted : BOOLEAN, ok : BOOLEAN]
        /\ runner'.pc = p /\ runner'.ok = runner.ok
    BY <1>4, <2>1 DEF Pcs
  <2>3. NoGate(lane.jobs) /\ up
    <3>1. up
      BY <1>4 DEF GateInv, BootOK, Off
    <3> QED BY <1>4, <3>1, IsNoGate DEF GateInv
  <2>4. JobsOK(lane.jobs, p, deletes[Gate])
    BY <2>1, <2>3, NoGateOK
  <2>5. RunnerOK'
    BY <1>4, <2>2 DEF GateInv, RunnerOK
  <2>6. Longer(lane.jobs)
    BY DEF Longer
  <2> QED BY <1>1, <1>4, <2>1, <2>2, <2>3, <2>4, <2>5, <2>6, Grows
<1>5. runner.query \in 0 .. Queries /\ Queries \in Nat
      /\ runner \in [pc : Pcs, query : 0 .. Queries, aborted : BOOLEAN, ok : BOOLEAN]
  BY GateFacts
<1>6. CASE Read /\ ~Finally(FALSE)
  <2>1. runner' = [runner EXCEPT !.pc = "answer", !.query = runner.query] /\ runner.pc = "read"
        /\ UNCHANGED <<verdict, there, compute, endpoint, lane, deletes, build, up, touched, left, ran>>
    BY <1>5, <1>6 DEF Read
  <2> QED BY <1>1, <1>4, <1>5, <2>1
<1>7. CASE Answer
  <2>1. /\ compute.st = "running" /\ compute.on \in {"candidate", "active"}
        /\ ~touched => compute.on = "candidate"
    BY <1>7 DEF Answer, GateInv, ComputeOK, GateTypeOK, Down
  <2>2. /\ ran' = ran \cup {compute.on} /\ ran' \subseteq {"candidate", "active"}
        /\ ~touched => ran' \subseteq {"candidate"}
        /\ ran' # {} /\ ran \subseteq ran'
    BY <1>1, <1>7, <2>1 DEF Answer
  <2>3. CASE Finally(TRUE)
    BY <1>7, <2>2, <2>3, Ends DEF Answer
  <2>4. CASE ~Finally(TRUE)
    <3>1. runner' = [runner EXCEPT !.pc = "read", !.query = runner.query + 1]
          /\ runner.query < Queries /\ runner.pc = "answer"
          /\ UNCHANGED <<verdict, there, compute, endpoint, lane, deletes, build, up, touched, left>>
      BY <1>7, <2>4 DEF Answer
    <3>2. runner.query + 1 \in 0 .. Queries
      BY <1>5, <3>1
    <3> QED BY <1>4, <2>2, <3>1, <3>2
  <2> QED BY <2>3, <2>4
<1> QED BY <1>2, <1>3, <1>6, <1>7

LEMMA EndInv ==
  ASSUME GateAssumption, GateInv, CreateFails \/ StoppedThenDelete \/ Deleted \/ Settle
  PROVE  GateInv'
<1>1. /\ runner \in [pc : Pcs, query : 0 .. Queries, aborted : BOOLEAN, ok : BOOLEAN]
      /\ lane.jobs \in Seq(Jobs) /\ deletes \in [Owners -> {"no", "drain", "tenant"}]
      /\ lane = [lane EXCEPT !.jobs = lane.jobs] /\ Longer(lane.jobs)
      /\ verdict \in {"none", "open", "rm", "ready", "failed"}
      /\ ran \subseteq {"candidate", "active"} /\ Gate \in Owners
  BY GateFacts DEF GateInv, GateTypeOK, Longer
<1>2. up
  BY DEF CreateFails, StoppedThenDelete, Deleted, Settle, GateInv, BootOK, Off
<1>3. CASE CreateFails \/ Deleted
  <2>1. /\ runner.pc \in {"create", "delete"} /\ runner' = [runner EXCEPT !.pc = "end"]
        /\ deletes[Gate] = "no"
        /\ UNCHANGED <<verdict, there, compute, endpoint, lane, deletes, build, up, ran, touched, left>>
    BY <1>1, <1>3 DEF CreateFails, Deleted, GateInv, RunnerOK
  <2>2. /\ runner' \in [pc : Pcs, query : 0 .. Queries, aborted : BOOLEAN, ok : BOOLEAN]
        /\ runner'.pc = "end" /\ runner'.ok = runner.ok
    BY <1>1, <2>1 DEF Pcs
  <2>3. JobsOK(lane.jobs, "end", deletes[Gate])
    BY <2>1, IsNoGate, NoGateOK DEF GateInv
  <2>4. RunnerOK'
    BY <1>2, <2>1, <2>2 DEF GateInv, RunnerOK
  <2> QED BY <1>1, <1>2, <2>1, <2>2, <2>3, <2>4, Grows
<1>4. CASE StoppedThenDelete
  <2>1. /\ runner.pc = "stopped" /\ runner' = [runner EXCEPT !.pc = "delete"] /\ BeginDelete(Gate)
        /\ lane' = [lane EXCEPT !.jobs = lane.jobs \o DrainJob(Gate)]
        /\ UNCHANGED <<verdict, there, compute, endpoint, build, up, ran, touched, left>>
    BY <1>4 DEF StoppedThenDelete, Queued
  <2>2. /\ runner' \in [pc : Pcs, query : 0 .. Queries, aborted : BOOLEAN, ok : BOOLEAN]
        /\ runner'.pc = "delete" /\ runner'.ok = runner.ok
    BY <1>1, <2>1 DEF Pcs
  <2>3. deletes[Gate] = "no" /\ NoGate(lane.jobs)
    BY <1>1, <2>1, IsNoGate DEF GateInv, RunnerOK
  <2>4. /\ Longer(lane.jobs \o DrainJob(Gate))
        /\ JobsOK(lane.jobs \o DrainJob(Gate), "delete", deletes'[Gate])
        /\ deletes' \in [Owners -> {"no", "drain", "tenant"}]
        /\ \A o \in Owners \ {Gate} : deletes'[o] = deletes[o]
        /\ deletes'[Gate] = "no" => there = {}
        /\ deletes'[Gate] = "tenant" => "branch" \notin there
    BY <2>1, <2>3, Deleting
  <2>5. RunnerOK'
    BY <1>1, <2>1, <2>2, <2>4 DEF GateInv, RunnerOK
  <2> QED BY <1>1, <1>2, <2>1, <2>2, <2>4, <2>5, Grows
<1>5. CASE Settle
  <2>1. /\ runner.pc = "end" /\ runner' = Off
        /\ verdict' \in {"none", "rm", "ready", "failed"}
        /\ verdict' = "ready" => verdict = "ready" \/ runner.ok
        /\ UNCHANGED <<there, compute, endpoint, lane, deletes, build, up, ran, touched, left>>
    BY <1>1, <1>5 DEF Settle
  <2>2. /\ runner' \in [pc : Pcs, query : 0 .. Queries, aborted : BOOLEAN, ok : BOOLEAN]
        /\ runner'.pc = "off" /\ runner'.ok = FALSE
    BY <2>1, GateFacts DEF Pcs, Off
  <2>3. JobsOK(lane.jobs, "off", deletes[Gate])
    BY <2>1, IsNoGate, NoGateOK DEF GateInv
  <2>4. RunnerOK'
    BY <1>2, <2>1, <2>2 DEF GateInv, RunnerOK
  <2> QED BY <1>1, <1>2, <2>1, <2>2, <2>3, <2>4, Grows
<1> QED BY <1>3, <1>4, <1>5

LEMMA TimeoutInv == ASSUME GateAssumption, GateInv, Timeout PROVE GateInv'
<1>1. /\ runner \in [pc : Pcs, query : 0 .. Queries, aborted : BOOLEAN, ok : BOOLEAN]
      /\ lane.jobs \in Seq(Jobs) /\ deletes \in [Owners -> {"no", "drain", "tenant"}]
      /\ lane = [lane EXCEPT !.jobs = lane.jobs] /\ Longer(lane.jobs)
      /\ ran \subseteq {"candidate", "active"}
  BY GateFacts DEF GateInv, GateTypeOK, Longer
<1>2. /\ verdict = "open" /\ verdict' = "rm" /\ runner.pc # "off"
      /\ UNCHANGED <<there, compute, endpoint, deletes, build, up, ran, touched, left>>
  BY DEF Timeout, GateInv, RunnerOK
<1>3. up
  BY <1>2 DEF GateInv, BootOK, Off
<1>4. CASE runner.pc \in {"start", "read", "answer"}
  <2>1. /\ runner' = [runner EXCEPT !.aborted = TRUE, !.ok = FALSE, !.pc = "stop"]
        /\ lane' = [lane EXCEPT !.jobs = lane.jobs \o <<Job(Gate, "stop")>>]
    BY <1>4 DEF Timeout, Queued
  <2>2. /\ runner' \in [pc : Pcs, query : 0 .. Queries, aborted : BOOLEAN, ok : BOOLEAN]
        /\ runner'.pc = "stop" /\ runner'.ok = FALSE
    BY <1>1, <2>1 DEF Pcs
  <2>3. Longer(lane.jobs \o <<Job(Gate, "stop")>>)
        /\ JobsOK(lane.jobs \o <<Job(Gate, "stop")>>, "stop", deletes[Gate])
    BY <1>4, StopJob, PushStop DEF Longer, GateInv
  <2>4. RunnerOK'
    BY <1>2, <1>4, <2>2 DEF GateInv, RunnerOK
  <2> QED BY <1>1, <1>2, <1>3, <2>1, <2>2, <2>3, <2>4, Grows
<1>5. CASE runner.pc \notin {"start", "read", "answer"}
  <2>1. runner' = [runner EXCEPT !.aborted = TRUE] /\ lane' = lane
    BY <1>5 DEF Timeout
  <2>2. /\ runner' \in [pc : Pcs, query : 0 .. Queries, aborted : BOOLEAN, ok : BOOLEAN]
        /\ runner'.pc = runner.pc /\ runner'.ok = runner.ok
    BY <1>1, <2>1
  <2>3. JobsOK(lane.jobs, runner.pc, deletes[Gate])
    BY DEF GateInv
  <2>4. RunnerOK'
    BY <1>2, <2>1, <2>2 DEF GateInv, RunnerOK
  <2> QED BY <1>1, <1>2, <1>3, <2>1, <2>2, <2>3, <2>4, Grows
<1> QED BY <1>4, <1>5

LEMMA DiscardInv == ASSUME GateAssumption, GateInv, Discard PROVE GateInv'
<1>1. /\ verdict = "rm" /\ verdict' = "failed" /\ build' = FALSE
      /\ UNCHANGED <<runner, there, compute, endpoint, lane, deletes, up, ran, touched, left>>
  BY DEF Discard
<1>2. GateTypeOK' /\ HeadOK' /\ ComputeOK' /\ BootOK'
  <2>1. GateTypeOK'
    <3>1. build' \in BOOLEAN
      BY <1>1, Zenon
    <3> QED BY <1>1, <3>1 DEF GateInv, GateTypeOK
  <2>2. HeadOK' /\ ComputeOK'
    BY <1>1 DEF GateInv, HeadOK, First, ComputeOK
  <2>3. BootOK'
    BY <1>1 DEF GateInv, BootOK
  <2> QED BY <2>1, <2>2, <2>3
<1>3. RunnerOK'
  BY <1>1 DEF GateInv, RunnerOK
<1> QED BY <1>1, <1>2, <1>3 DEF GateInv

LEMMA CrashInv == ASSUME GateAssumption, GateInv, Crash PROVE GateInv'
<1>1. /\ compute.st = "running" /\ compute' = [compute EXCEPT !.st = "failed"]
      /\ UNCHANGED <<verdict, runner, there, endpoint, lane, deletes, build, up, ran, touched, left>>
  BY DEF Crash
<1>2. compute'.st = "failed" /\ compute'.on = compute.on
      /\ compute' \in [st : {"stopped", "running", "failed"}, on : {"none", "candidate", "active"}]
  BY <1>1 DEF GateInv, GateTypeOK
<1>3. compute # Down /\ compute' # Down
  BY <1>1, <1>2 DEF Down
<1>4. GateTypeOK'
  BY <1>1, <1>2 DEF GateInv, GateTypeOK
<1>5. HeadOK' /\ ComputeOK'
  BY <1>1, <1>2, <1>3 DEF GateInv, HeadOK, First, ComputeOK
<1>6. RunnerOK' /\ BootOK'
  BY <1>1, <1>3 DEF GateInv, RunnerOK, BootOK
<1> QED BY <1>1, <1>4, <1>5, <1>6 DEF GateInv

LEMMA SweepInv == ASSUME GateAssumption, GateInv, Sweep PROVE GateInv'
<1>1. /\ ~up /\ runner = Off /\ lane = Free /\ compute = Down
      /\ \A o \in Owners : deletes[o] = "no"
      /\ UNCHANGED <<verdict, runner, compute, endpoint, lane, deletes, build, ran, touched, left>>
  BY DEF Sweep, GateInv, BootOK
<1>2. /\ there' \in {{}, {"project"}} /\ up' \in BOOLEAN /\ (up' => there' = {})
  <2>1. there \in {{}, {"project"}, {"project", "branch"}} /\ ~up
        /\ up \in BOOLEAN
    BY <1>1 DEF GateInv, GateTypeOK
  <2>2. CASE "branch" \in there /\ there' = {"project"} /\ up' = up
    BY <2>1, <2>2
  <2>3. CASE there = {"project"} /\ there' = {} /\ up' = up
    BY <2>1, <2>3
  <2>4. CASE there = {} /\ up' = TRUE /\ there' = there
    BY <2>4
  <2> QED BY <2>2, <2>3, <2>4 DEF Sweep
<1>3. lane.jobs = <<>> /\ lane.at = "turn" /\ runner.pc = "off" /\ runner.ok = FALSE
  BY <1>1 DEF Free, Off
<1>4. GateTypeOK'
  BY <1>1, <1>2 DEF GateInv, GateTypeOK
<1>5. HeadOK' /\ ComputeOK'
  BY <1>1, <1>3 DEF HeadOK, ComputeOK, Down
<1>6. RunnerOK' /\ BootOK'
  <2>1. Gate \in Owners
    BY GateFacts
  <2> QED BY <1>1, <1>2, <1>3, <2>1 DEF GateInv, RunnerOK, BootOK
<1> QED BY <1>1, <1>4, <1>5, <1>6 DEF GateInv

LEMMA DeleteEndsInv ==
  ASSUME GateAssumption, GateInv, NEW o \in Owners, DeleteEnds(o)
  PROVE  GateInv'
<1>1. /\ deletes[o] = "tenant" /\ deletes' = [deletes EXCEPT ![o] = "no"]
      /\ UNCHANGED <<verdict, runner, compute, endpoint, lane, build, up, ran, touched>>
  BY DEF DeleteEnds
<1>2. /\ "branch" \notin there /\ there \in {{}, {"project"}} /\ compute = Down
      /\ lane.at = "turn" /\ Gate \in Owners
      /\ deletes \in [Owners -> {"no", "drain", "tenant"}]
  BY <1>1, GateFacts DEF GateInv, RunnerOK, GateTypeOK, ComputeOK, HeadOK
<1>3. /\ deletes' \in [Owners -> {"no", "drain", "tenant"}] /\ deletes'[o] = "no"
      /\ \A p \in Owners : deletes'[p] # "no" => deletes'[p] = deletes[p]
      /\ \A p \in Owners \ {o} : deletes'[p] = deletes[p]
  BY <1>1, <1>2
<1>4. /\ there' \in {{}, {"project"}} /\ left' \in BOOLEAN /\ (left => left')
      /\ o = Gate /\ ~left' => there' = {}
      /\ there = {} => there' = {}
  BY <1>2 DEF DeleteEnds, GateInv, GateTypeOK
<1>5. GateTypeOK'
  BY <1>1, <1>3, <1>4 DEF GateInv, GateTypeOK
<1>6. JobsOK(lane.jobs, runner.pc, deletes'[Gate])
  <2>1. CASE o = Gate
    BY <1>1, <2>1, IsNoGate, NoGateOK DEF GateInv, RunnerOK
  <2>2. CASE o # Gate
    BY <1>2, <1>3, <2>2 DEF GateInv
  <2> QED BY <2>1, <2>2
<1>7. HeadOK' /\ ComputeOK'
  BY <1>1, <1>2 DEF GateInv, HeadOK, ComputeOK, Down
<1>8. RunnerOK'
  <2>1. runner'.pc # "create"
    BY <1>1 DEF GateInv, RunnerOK
  <2>2. up' /\ ~left' /\ (runner'.pc \in {"off", "end"} \/ (runner'.pc = "delete" /\ deletes'[Gate] = "no"))
          => there' = {}
    BY <1>1, <1>2, <1>3, <1>4 DEF GateInv, RunnerOK
  <2> QED BY <1>1, <1>2, <1>3, <1>4, <2>1, <2>2 DEF GateInv, RunnerOK
<1>9. BootOK'
  BY <1>1 DEF GateInv, BootOK
<1> QED BY <1>1, <1>5, <1>6, <1>7, <1>8, <1>9 DEF GateInv

LEMMA RequestInv ==
  ASSUME GateAssumption, GateInv, NEW c \in Clients, NEW k \in {"start", "stop", "drain"},
         Request(c, k)
  PROVE  GateInv'
<1>1. /\ up /\ "branch" \in there /\ lane' = [lane EXCEPT !.jobs = lane.jobs \o <<Job(c, k)>>]
      /\ UNCHANGED <<verdict, runner, there, compute, endpoint, build, up, ran, touched, left>>
  BY DEF Request, Queued
<1>2. /\ Job(c, k) \in Jobs /\ Job(c, k).by = c /\ c # Gate /\ c \in Owners /\ Gate \in Owners
      /\ deletes \in [Owners -> {"no", "drain", "tenant"}]
      /\ runner \in [pc : Pcs, query : 0 .. Queries, aborted : BOOLEAN, ok : BOOLEAN]
      /\ "project" \in there
      /\ verdict \in {"none", "open", "rm", "ready", "failed"} /\ ran \subseteq {"candidate", "active"}
  BY <1>1, GateFacts DEF Job, Jobs, Owners, GateAssumption, GateInv, GateTypeOK
<1>3. /\ deletes' \in [Owners -> {"no", "drain", "tenant"}]
      /\ \A o \in Owners : deletes'[o] = deletes[o] \/ (o = c /\ deletes'[o] = "drain")
  BY <1>1, <1>2 DEF Request, BeginDelete
<1>4. Longer(lane.jobs \o <<Job(c, k)>>)
      /\ JobsOK(lane.jobs \o <<Job(c, k)>>, runner.pc, deletes'[Gate])
  BY <1>2, <1>3, PushClient DEF Longer, GateInv
<1>5. RunnerOK'
  <2>1. runner.pc # "create"
    BY <1>1 DEF GateInv, RunnerOK
  <2>2. deletes'[Gate] = deletes[Gate]
    BY <1>2, <1>3
  <2>3. \A o \in Owners : deletes'[o] = "tenant" => deletes[o] = "tenant"
    BY <1>3
  <2> QED BY <1>1, <2>1, <2>2, <2>3 DEF GateInv, RunnerOK
<1> QED BY <1>1, <1>2, <1>3, <1>4, <1>5, Grows

LEMMA GateStepInv == ASSUME GateAssumption, GateInv, GateNext PROVE GateInv'
<1>1. Runner => GateInv'
  BY CreatedInv, ReadInv, EndInv DEF Runner
<1>2. \A c \in Clients : Request(c, "start") \/ Request(c, "stop") \/ Request(c, "drain") => GateInv'
  BY RequestInv
<1> QED BY <1>1, <1>2, TurnsInv, TimeoutInv, DiscardInv, CrashInv, SweepInv, DeleteEndsInv
        DEF GateNext

-----------------------------------------------------------------------------
(* Both together.                                                            *)

\* While a pull downloads there is nothing of a gate that could move.
LEMMA QuietStays ==
  ASSUME GateAssumption, GateInv, Quiet, verdict = "none", GateNext
  PROVE  FALSE
<1>1. /\ up /\ runner.pc = "off" /\ there = {} /\ lane.jobs = <<>> /\ compute.st = "stopped"
      /\ \A o \in Owners : deletes[o] = "no"
  BY DEF Quiet, Off, Free, GateInv, ComputeOK, Down
<1>2. ~Runner
  BY <1>1 DEF Runner, Created, CreateFails, StartFails, Read, Answer, AnswerFails,
              StoppedThenDelete, Deleted, Settle
<1>3. ~Turns
  BY <1>1 DEF Turns, Gone, Already, Reap, Reaped, Launch, Launched, LaunchFails, PersistFails,
              Undone, BeginStop, Stopped, Drained, MyTurn, At
<1> QED BY <1>1, <1>2, <1>3 DEF GateNext, Timeout, Discard, Crash, Sweep, DeleteEnds, Request

LEMMA GateSame == ASSUME GateInv, UNCHANGED gateVars PROVE GateInv'
BY DEF gateVars, GateInv, GateTypeOK, HeadOK, First, ComputeOK, RunnerOK, BootOK

LEMMA OciSame == ASSUME OciInv, UNCHANGED ociVars PROVE OciInv'
BY DEF ociVars, OciInv, OciTypeOK, TreeInv, KeptInv, Layered, Grown

LEMMA QuietSame == ASSUME Quiet, UNCHANGED <<runner, there, lane, deletes, up>>,
                          verdict' \in {"none", "ready", "failed"}
                   PROVE  Quiet'
BY DEF Quiet

\* The states both components begin in.
LEMMA OffType ==
  ASSUME GateAssumption
  PROVE  /\ Off \in [pc : Pcs, query : 0 .. Queries, aborted : BOOLEAN, ok : BOOLEAN]
         /\ [Off EXCEPT !.pc = "create"]
              \in [pc : Pcs, query : 0 .. Queries, aborted : BOOLEAN, ok : BOOLEAN]
         /\ [Off EXCEPT !.pc = "create"].pc = "create" /\ [Off EXCEPT !.pc = "create"].ok = FALSE
<1>1. 0 \in 0 .. Queries
  BY DEF GateAssumption
<1>2. Off \in [pc : Pcs, query : 0 .. Queries, aborted : BOOLEAN, ok : BOOLEAN]
  BY <1>1 DEF Off, Pcs
<1>3. "create" \in Pcs
  BY DEF Pcs
<1>4. Off.ok = FALSE
  BY DEF Off
<1> QED BY <1>2, <1>3, <1>4

LEMMA IdleType ==
  ASSUME OciAssumption
  PROVE  /\ [pc |-> "idle", layer |-> 0, ok |-> FALSE]
              \in [pc : FetchPcs, layer : 0 .. MaxLayers, ok : BOOLEAN]
         /\ Empty \in [Paths -> Contents]
<1>1. 0 \in 0 .. MaxLayers /\ "idle" \in FetchPcs
  BY DEF OciAssumption, FetchPcs
<1> QED BY <1>1 DEF Empty, Contents

LEMMA InitInv == ASSUME OciAssumption, GateAssumption, Init PROVE Inv
<1>1. OciTypeOK
  <2>1. /\ fetch \in [pc : FetchPcs, layer : 0 .. MaxLayers, ok : BOOLEAN]
        /\ tree \in [Paths -> Contents] /\ image = <<>> /\ scratch = {} /\ dest = NoTree
    BY IdleType DEF Init, OciInit
  <2>2. stuck \in BOOLEAN
    BY DEF Init, OciInit
  <2> QED BY <2>1, <2>2 DEF OciTypeOK, FetchPcs
<1>2. OciInv
  BY <1>1 DEF Init, OciInit, OciInv, TreeInv, KeptInv
<1>3. /\ verdict = "none" /\ runner = Off /\ there = {} /\ compute = Down /\ endpoint = "stopped"
      /\ lane = Free /\ deletes = [o \in Owners |-> "no"] /\ build = FALSE /\ up = TRUE
      /\ ran = {} /\ touched = FALSE /\ left = FALSE
      /\ lane.jobs = <<>> /\ lane.at = "turn" /\ runner.pc = "off" /\ runner.ok = FALSE
      /\ compute.st = "stopped"
  BY DEF Init, GateInit, Free, Off, Down
<1>4. GateTypeOK
  <2>1. runner \in [pc : Pcs, query : 0 .. Queries, aborted : BOOLEAN, ok : BOOLEAN]
    BY <1>3, OffType
  <2>2. compute \in [st : {"stopped", "running", "failed"}, on : {"none", "candidate", "active"}]
    BY <1>3 DEF Down
  <2>3. build \in BOOLEAN /\ up \in BOOLEAN /\ touched \in BOOLEAN /\ left \in BOOLEAN
    BY <1>3, Zenon
  <2> QED BY <1>3, <2>1, <2>2, <2>3 DEF GateTypeOK, Pcs
<1>5. JobsOK(lane.jobs, runner.pc, deletes[Gate])
  <2>1. lane.jobs \in Seq(Jobs) /\ NoGate(lane.jobs)
    BY <1>3 DEF NoGate
  <2> QED BY <2>1, NoGateOK
<1>6. HeadOK /\ ComputeOK /\ BootOK
  BY <1>3 DEF HeadOK, ComputeOK, BootOK
<1>7. RunnerOK
  BY <1>3 DEF RunnerOK, Owners
<1>8. lane = [at |-> lane.at, jobs |-> lane.jobs]
  BY <1>3 DEF Free
<1>9. Joint
  BY DEF Init, OciInit, Joint
<1> QED BY <1>2, <1>4, <1>5, <1>6, <1>7, <1>8, <1>9 DEF Inv, GateInv

LEMMA PullInv == ASSUME OciAssumption, GateAssumption, Inv, Pull PROVE Inv'
<1>1. /\ Quiet /\ PullPrefix /\ verdict' = "none" /\ build' = FALSE /\ ran' = {}
      /\ touched' = FALSE
      /\ UNCHANGED <<runner, there, compute, endpoint, lane, deletes, up, left>>
  BY DEF Pull
<1>2. OciInv'
  <2>1. CASE dest # NoTree
    <3>1. /\ fetch' = [pc |-> "failed", layer |-> 0, ok |-> FALSE] /\ fetch.pc = "idle"
          /\ UNCHANGED <<image, tree, scratch, stuck, dest>>
      BY <1>1, <2>1 DEF PullPrefix, FetchAt
    <3>2. OciTypeOK'
      BY <3>1 DEF Inv, OciInv, OciTypeOK, OciAssumption
    <3>3. KeptInv'
      BY <3>1 DEF Inv, OciInv, KeptInv
    <3> QED BY <3>1, <3>2, <3>3, OciRest
  <2>2. CASE dest = NoTree
    BY <1>1, <2>2, OciBegins DEF PullPrefix
  <2> QED BY <2>1, <2>2
<1>3. /\ runner.pc = "off" /\ runner.ok = FALSE /\ there = {} /\ lane = Free /\ up
      /\ \A o \in Owners : deletes[o] = "no"
      /\ compute = Down /\ Gate \in Owners
  <2>1. compute = Down
    BY <1>1 DEF Quiet, Inv, GateInv, ComputeOK
  <2> QED BY <1>1, <2>1, GateFacts DEF Quiet, Off, Inv
<1>4. GateInv'
  <2>1. GateTypeOK'
    <3>1. build' \in BOOLEAN /\ touched' \in BOOLEAN
      BY <1>1, Zenon
    <3> QED BY <1>1, <3>1 DEF Inv, GateInv, GateTypeOK
  <2>2. HeadOK'
    BY <1>1 DEF Inv, GateInv, HeadOK, First
  <2>3. ComputeOK' /\ BootOK'
    BY <1>1, <1>3 DEF ComputeOK, BootOK, Down
  <2>4. RunnerOK'
    BY <1>1, <1>3 DEF RunnerOK
  <2> QED BY <1>1, <2>1, <2>2, <2>3, <2>4 DEF Inv, GateInv
<1>5. Joint'
  BY <1>1, QuietSame DEF Joint
<1> QED BY <1>2, <1>4, <1>5 DEF Inv

LEMMA ReclaimInv == ASSUME OciAssumption, GateAssumption, Inv, Reclaim \/ NotABuild PROVE Inv'
<1>1. UNCHANGED <<image, tree, scratch, gateVars>>
  BY DEF Reclaim, NotABuild
<1>2. PICK pc \in {"idle", "failed"} :
        /\ fetch'.pc = pc
        /\ fetch' \in [pc : FetchPcs, layer : 0 .. MaxLayers, ok : BOOLEAN]
        /\ pc = "idle" => fetch.pc = "failed"
        /\ pc = "failed" => fetch.pc = "pulled"
  <2>1. CASE Reclaim
    <3>1. fetch' = [fetch EXCEPT !.pc = "idle"] /\ fetch.pc = "failed"
      BY <2>1 DEF Reclaim, FetchGo, FetchAt
    <3> QED BY <3>1, FetchFacts DEF FetchPcs, Inv, OciInv
  <2>2. CASE NotABuild
    <3>1. fetch' = [fetch EXCEPT !.pc = "failed", !.ok = FALSE] /\ fetch.pc = "pulled"
      BY <2>2 DEF NotABuild, Throw, FetchAt
    <3> QED BY <3>1, FetchFacts DEF FetchPcs, Inv, OciInv
  <2> QED BY <2>1, <2>2
<1>3. \/ dest' = NoTree /\ stuck' = stuck
      \/ dest # NoTree /\ stuck' = TRUE /\ dest' = dest
  BY DEF Reclaim, NotABuild
<1>4. OciTypeOK'
  BY <1>1, <1>2, <1>3 DEF Inv, OciInv, OciTypeOK, FetchPcs
<1>5. KeptInv'
  BY <1>1, <1>2, <1>3 DEF Inv, OciInv, KeptInv
<1>6. OciInv'
  BY <1>2, <1>4, <1>5, OciRest
<1>7. GateInv'
  BY <1>1, GateSame DEF Inv
<1>8. Joint'
  <2>1. Quiet /\ verdict = "none"
    BY <1>2 DEF Inv, Joint
  <2> QED BY <1>1, <2>1, QuietSame DEF Joint, gateVars
<1> QED BY <1>6, <1>7, <1>8 DEF Inv

LEMMA InstallInv == ASSUME OciAssumption, GateAssumption, Inv, Install PROVE Inv'
<1>1. /\ fetch.pc = "pulled" /\ fetch' = [fetch EXCEPT !.pc = "idle"] /\ dest' = NoTree
      /\ image' = <<>> /\ tree' = Empty /\ UNCHANGED <<scratch, stuck>> /\ Open
  BY DEF Install, FetchAt, FetchGo
<1>2. fetch'.pc = "idle" /\ fetch' \in [pc : FetchPcs, layer : 0 .. MaxLayers, ok : BOOLEAN]
  BY <1>1, FetchFacts DEF Inv, OciInv, FetchPcs
<1>3. OciTypeOK'
  <2>1. Empty \in [Paths -> Contents]
    BY DEF Empty, Contents
  <2> QED BY <1>1, <1>2, <2>1 DEF Inv, OciInv, OciTypeOK, FetchPcs
<1>4. KeptInv'
  BY <1>1, <1>2 DEF Inv, OciInv, KeptInv
<1>5. OciInv'
  BY <1>2, <1>3, <1>4, OciRest
<1>6. /\ up /\ there = {} /\ lane = Free /\ \A o \in Owners : deletes[o] = "no"
      /\ compute = Down /\ Gate \in Owners
      /\ lane.jobs = <<>> /\ lane.at = "turn" /\ lane.jobs \in Seq(Jobs)
  <2>1. Quiet
    BY <1>1 DEF Inv, Joint
  <2>2. compute = Down
    BY <2>1 DEF Quiet, Inv, GateInv, ComputeOK
  <2> QED BY <2>1, <2>2, GateFacts DEF Quiet, Inv, Free
<1>7. /\ verdict' = "open" /\ build' = TRUE /\ runner' = [Off EXCEPT !.pc = "create"]
      /\ ran' = {} /\ touched' = FALSE /\ left' = FALSE
      /\ UNCHANGED <<there, compute, endpoint, lane, deletes, up>>
  BY <1>1 DEF Open
<1>8. /\ runner' \in [pc : Pcs, query : 0 .. Queries, aborted : BOOLEAN, ok : BOOLEAN]
      /\ runner'.pc = "create" /\ runner'.ok = FALSE
  BY <1>7, OffType
<1>9. GateInv'
  <2>1. GateTypeOK'
    <3>1. build' \in BOOLEAN /\ touched' \in BOOLEAN /\ left' \in BOOLEAN
      BY <1>7, Zenon
    <3> QED BY <1>7, <1>8, <3>1 DEF Inv, GateInv, GateTypeOK, Pcs
  <2>2. JobsOK(lane.jobs, "create", deletes[Gate])
    <3>1. NoGate(lane.jobs)
      BY <1>6 DEF NoGate
    <3> QED BY <1>6, <3>1, NoGateOK
  <2>3. HeadOK' /\ ComputeOK'
    BY <1>6, <1>7 DEF HeadOK, ComputeOK, Down
  <2>4. RunnerOK' /\ BootOK'
    BY <1>6, <1>7, <1>8 DEF RunnerOK, BootOK
  <2> QED BY <1>7, <1>8, <2>1, <2>2, <2>3, <2>4 DEF Inv, GateInv
<1>10. Joint'
  BY <1>2 DEF Joint
<1> QED BY <1>5, <1>9, <1>10 DEF Inv

LEMMA RestartInv == ASSUME OciAssumption, GateAssumption, Inv, Restart PROVE Inv'
<1>1. /\ fetch' = [pc |-> "idle", layer |-> 0, ok |-> FALSE] /\ image' = <<>> /\ tree' = Empty
      /\ scratch' = {} /\ dest' = NoTree /\ stuck' = FALSE /\ Restarted
  BY DEF Restart
<1>2. OciInv'
  <2>1. Empty \in [Paths -> Contents]
    BY DEF Empty, Contents
  <2>2. OciTypeOK'
    <3>1. /\ fetch' \in [pc : FetchPcs, layer : 0 .. MaxLayers, ok : BOOLEAN]
          /\ tree' \in [Paths -> Contents]
      BY <1>1, IdleType
    <3>2. stuck' \in BOOLEAN
      BY <1>1, Zenon
    <3> QED BY <1>1, <3>1, <3>2 DEF OciTypeOK, FetchPcs
  <2>3. KeptInv'
    BY <1>1 DEF KeptInv
  <2> QED BY <1>1, <2>2, <2>3, OciRest
<1>3. /\ runner' = Off /\ compute' = Down /\ endpoint' = "stopped" /\ lane' = Free
      /\ deletes' = [o \in Owners |-> "no"] /\ up' = FALSE /\ left' = FALSE
      /\ UNCHANGED <<there, ran, touched>>
      /\ lane'.jobs = <<>> /\ lane'.at = "turn" /\ lane'.jobs \in Seq(Jobs)
      /\ runner'.pc = "off" /\ runner'.ok = FALSE /\ compute'.st = "stopped"
  BY <1>1 DEF Restarted, Free, Off, Down
<1>4. /\ verdict' \in {"none", "ready", "failed"} /\ (verdict' = "ready" => verdict = "ready")
      /\ build' \in BOOLEAN
  <2>1. verdict \in {"none", "open", "rm", "ready", "failed"}
    BY DEF Inv, GateInv, GateTypeOK
  <2>2. build' \in BOOLEAN
    BY <1>1 DEF Restarted
  <2> QED BY <1>1, <2>1, <2>2 DEF Restarted
<1>5. GateInv'
  <2>1. GateTypeOK'
    <3>1. up' \in BOOLEAN /\ left' \in BOOLEAN
      BY <1>3, Zenon
    <3>2. runner' \in [pc : Pcs, query : 0 .. Queries, aborted : BOOLEAN, ok : BOOLEAN]
      BY <1>3, OffType
    <3>3. compute' \in [st : {"stopped", "running", "failed"}, on : {"none", "candidate", "active"}]
      BY <1>3 DEF Down
    <3> QED BY <1>3, <1>4, <3>1, <3>2, <3>3 DEF Inv, GateInv, GateTypeOK, Pcs
  <2>2. JobsOK(lane'.jobs, runner'.pc, deletes'[Gate])
    <3>1. NoGate(lane'.jobs)
      BY <1>3 DEF NoGate
    <3> QED BY <1>3, <3>1, NoGateOK
  <2>3. HeadOK' /\ ComputeOK' /\ BootOK'
    BY <1>3 DEF HeadOK, ComputeOK, BootOK
  <2>4. RunnerOK'
    <3>1. \A o \in Owners : deletes'[o] = "no"
      BY <1>3
    <3>2. Gate \in Owners
      BY DEF Owners
    <3> QED BY <1>3, <1>4, <3>1, <3>2 DEF Inv, GateInv, RunnerOK
  <2>5. lane' = [at |-> lane'.at, jobs |-> lane'.jobs]
    BY <1>3 DEF Free
  <2> QED BY <2>1, <2>2, <2>3, <2>4, <2>5 DEF GateInv
<1>6. Joint'
  BY <1>1 DEF Joint
<1> QED BY <1>2, <1>5, <1>6 DEF Inv

LEMMA NextInv == ASSUME OciAssumption, GateAssumption, Inv, [Next]_vars PROVE Inv'
<1>1. CASE OciSteps /\ UNCHANGED gateVars
  <2>1. fetch.pc # "idle"
    BY <1>1 DEF OciSteps, Manifest, FetchFails, Scratch, Downloaded, DownloadFails, Applied,
                ApplyFails, Assembled, NotAssembled, TreeAllowed, TreeRefused, Cleanup, FetchAt
  <2>2. Quiet' /\ verdict' = "none"
    BY <1>1, <2>1, QuietSame DEF Inv, Joint, gateVars
  <2> QED BY <1>1, <2>2, OciStepInv, GateSame DEF Inv, Joint
<1>2. CASE GateNext /\ UNCHANGED ociVars
  <2>1. fetch.pc = "idle"
    BY <1>2, QuietStays DEF Inv, Joint
  <2> QED BY <1>2, <2>1, OciSame, GateStepInv DEF Inv, Joint, ociVars
<1>3. CASE UNCHANGED vars
  <2>1. UNCHANGED ociVars /\ UNCHANGED gateVars
    BY <1>3 DEF vars
  <2>2. Joint'
    BY <2>1, QuietSame DEF Inv, Joint, ociVars, gateVars
  <2> QED BY <2>1, <2>2, OciSame, GateSame DEF Inv
<1> QED BY <1>1, <1>2, <1>3, PullInv, ReclaimInv, InstallInv, RestartInv DEF Next

THEOREM PipelineInvariant == Spec => []Inv
BY OciAssumption, GateAssumption, InitInv, NextInv, PTL DEF Spec

\* The pull, the gate, the lane and the boot have their types.
THEOREM PipelineTypes == Spec => []TypeOK
<1>1. Inv => TypeOK
  BY DEF Inv, OciInv, GateInv, TypeOK
<1> QED BY <1>1, PipelineInvariant, PTL

\* Where no layer has a marker above the prefix, the filter drops nothing that matters.
LEMMA InsideIsAll ==
  ASSUME OciAssumption, NEW img \in Images \cup {<<>>}, \A i \in DOMAIN img : ~img[i].outer
  PROVE  Inside(img) = img
<1>1. CASE img = <<>>
  BY <1>1 DEF Inside
<1>2. CASE img \in Images
  <2>1. PICK n \in 1 .. MaxLayers : img \in [1 .. n -> Bases \cup Uppers]
    BY <1>2 DEF Images
  <2>2. ASSUME NEW i \in 1 .. n PROVE InPrefix(img[i]) = img[i]
    <3>1. img[i] \in Layers /\ img[i].outer = FALSE
      BY <2>1, <2>2 DEF OciAssumption, Layers
    <3> QED BY <3>1 DEF InPrefix, Layers
  <2>3. Inside(img) = [i \in 1 .. n |-> img[i]]
    BY <2>1, <2>2 DEF Inside
  <2> QED BY <2>1, <2>3
<1> QED BY <1>1, <1>2

\* OverlayExact: for any tree of two levels and any number of layers, pullPrefix, which
\* deletes what a layer hides before it extracts the layer with tar, leaves at destDir
\* the overlay of the layers' members under usr/local/: that of the image, unless a
\* marker above the prefix hides usr/local as a whole, which applyLayer does not read.
THEOREM PullIsOverlay == Spec => []OverlayExact
<1>1. Inv => OverlayExact
  <2>1. SUFFICES ASSUME Inv, dest # NoTree
                 PROVE  /\ dest = Overlay(Inside(image))
                        /\ (\A i \in DOMAIN image : ~image[i].outer) => dest = Overlay(image)
    BY DEF OverlayExact
  <2>2. dest = Overlay(Inside(image)) /\ image \in Images \cup {<<>>}
    BY <2>1 DEF Inv, OciInv, OciTypeOK, KeptInv
  <2>3. (\A i \in DOMAIN image : ~image[i].outer) => Inside(image) = image
    BY <2>2, InsideIsAll, OciAssumption
  <2> QED BY <2>2, <2>3
<1> QED BY <1>1, PipelineInvariant, PTL

\* PullTidy: whichever step of a pull throws, its scratch directories and destDir are gone
\* when it has failed, unless a rm() failed as well.
THEOREM PullCleansUp == Spec => []PullTidy
<1>1. Inv => PullTidy
  BY DEF Inv, OciInv, KeptInv, PullTidy, FetchAt
<1> QED BY <1>1, PipelineInvariant, PTL

\* PassIsEarned: a build that the pipeline calls ready has answered every smoke query
\* itself, whatever clients did to other branches meanwhile.
THEOREM GatePassIsEarned == Spec => []PassIsEarned
<1>1. Inv => PassIsEarned
  BY DEF Inv, GateInv, RunnerOK, PassIsEarned
<1> QED BY <1>1, PipelineInvariant, PTL

\* NothingLeft: however the runner is cut short, by a throw, the timer or a client's own
\* delete, once it has settled there is no row, no compute and no job of its own, unless a
\* delete failed.
THEOREM GateNothingLeft == Spec => []NothingLeft
<1>1. Inv => NothingLeft
  <2> SUFFICES ASSUME Inv, up, runner.pc = "off", ~left
               PROVE  there = {} /\ compute = Down /\ \A n \in DOMAIN lane.jobs : lane.jobs[n].by # Gate
    BY DEF NothingLeft
  <2>1. there = {}
    BY DEF Inv, GateInv, RunnerOK
  <2>2. compute = Down
    BY <2>1 DEF Inv, GateInv, ComputeOK
  <2>3. NoGate(lane.jobs) /\ lane.jobs \in Seq(Jobs)
    BY IsNoGate DEF Inv, GateInv
  <2> QED BY <2>1, <2>2, <2>3 DEF NoGate
<1> QED BY <1>1, PipelineInvariant, PTL

\* EndpointHonest: startLocked, its compensation and stopLocked leave the row saying
\* "running" wherever a compute runs on.
THEOREM GateEndpointHonest == Spec => []EndpointHonest
<1>1. Inv => EndpointHonest
  BY DEF Inv, GateInv, HeadOK, EndpointHonest
<1> QED BY <1>1, PipelineInvariant, PTL

=============================================================================
