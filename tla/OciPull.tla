-------------------------------- MODULE OciPull --------------------------------
(* OciClient.pullPrefix (compute/builds/oci.ts): the layers of an image are      *)
(* downloaded and applied one after the other into a scratch directory, and what *)
(* they leave under usr/local is renamed to destDir.                             *)
(*                                                                             *)
(* An image is its sequence of layers.  A layer says what it holds of a small    *)
(* tree, which paths it hides (.wh.<name>), which directories it empties           *)
(* (.wh..wh..opq), and whether a marker outside usr/local/ hides that directory      *)
(* itself; a file is the number of the layer it comes from.                        *)
(* Digests and their checks are data: a manifest or a blob is the right one, or   *)
(* its download throws.                                                         *)
EXTENDS Naturals, Sequences, FiniteSets

CONSTANTS Tops,            \* paths directly below usr/local
          Kids,            \* paths below those
          Above,           \* Kids -> Tops: the directory a path is in
          Root,            \* usr/local itself
          Absent, Dir,     \* what there is at a path, if it is not a file
          NoTree,          \* destDir does not exist
          Bases, Uppers,   \* the layers images are made of: the first one, and others
          MaxLayers

Paths    == Tops \cup Kids
Contents == {Absent, Dir} \cup (1 .. MaxLayers)

\* The members of a layer's tar; markers in a directory come with its own entry.
\* (outer: usr/.wh.local, usr/.wh..wh..opq or one above.)
Layers == [put : [Paths -> {"none", "file", "dir"}], hide : SUBSET Paths,
           opaque : SUBSET (Tops \cup {Root}), outer : BOOLEAN]
WellFormed(l) ==
  \A k \in Kids :
    /\ l.put[k] # "dir"
    /\ (l.put[k] # "none" \/ k \in l.hide \/ Above[k] \in l.opaque) => l.put[Above[k]] = "dir"

ASSUME OciAssumption ==
  /\ Tops \cap Kids = {} /\ Root \notin Paths
  /\ Above \in [Kids -> Tops]
  /\ {Absent, Dir} \cap Nat = {} /\ Absent # Dir
  /\ NoTree \notin [Paths -> Contents]
  /\ Bases \cup Uppers \subseteq {l \in Layers : WellFormed(l)}
  /\ MaxLayers \in Nat \ {0}

VARIABLES
  fetch,     \* where pullPrefix is suspended, at which layer, and whether it goes well
  image,     \* the layers of the manifest
  tree,      \* what extractRoot holds under usr/local
  scratch,   \* the scratch directories there are
  dest,      \* what destDir holds
  stuck      \* history: a rm() has failed since the last pull that could begin

ociVars == <<fetch, image, tree, scratch, dest, stuck>>

Empty    == [p \in Paths |-> Absent]
Images   == {i \in UNION {[1 .. n -> Bases \cup Uppers] : n \in 1 .. MaxLayers} :
               i[1] \in Bases /\ \A n \in 2 .. Len(i) : i[n] \in Uppers}
Touches(l) == l.hide \cup l.opaque # {} \/ \E p \in Paths : l.put[p] # "none"

OciInit ==
  /\ fetch = [pc |-> "idle", layer |-> 0, ok |-> FALSE]
  /\ image = <<>>
  /\ tree = Empty
  /\ scratch = {}
  /\ dest = NoTree
  /\ stuck = FALSE

FetchAt(pc) == fetch.pc = pc
FetchGo(pc) == fetch' = [fetch EXCEPT !.pc = pc]
Throw(pc)   == fetch' = [fetch EXCEPT !.pc = pc, !.ok = FALSE]

-----------------------------------------------------------------------------
(* applyLayer.                                                               *)

In(t, d)     == {k \in Kids : Above[k] = d /\ t[k] # Absent}
Inner(l)     == {Above[k] : k \in l.hide \cap Kids} \cup (l.opaque \cap Tops)
Hidden(l, p) == \/ p \in l.hide \/ Root \in l.opaque
                \/ p \in Kids /\ Above[p] \in l.hide \cup l.opaque

\* The whiteouts under the prefix, against what lower layers left: with no parent
\* directory there is nothing to delete.  A marker outside the prefix is not among them.
Whiteouts(t, l) == [p \in Paths |-> IF Hidden(l, p) THEN Absent ELSE t[p]]

\* parentChainIsRealDir refuses a marker below what is not a directory; one whiteout
\* before it, in archive order, may have made room.
Accepted(t, l) == \A d \in Inner(l) : t[d] \in Nat => Hidden(l, d)

\* tar -x replaces files and empty directories, and nothing else.
Extract(t, l, i) ==
  [p \in Paths |-> IF l.put[p] = "none" THEN t[p] ELSE IF l.put[p] = "dir" THEN Dir ELSE i]
TarFails(t, l) == \E d \in Tops : l.put[d] = "file" /\ t[d] = Dir /\ In(t, d) # {}

\* Mutant: the whiteouts are applied to the extracted layer.
ExtractFirst(t, l, i) == Whiteouts(Extract(t, l, i), l)

\* The markers that were extracted are dropped again.
Apply(t, l, i) == Extract(Whiteouts(t, l), l, i)

-----------------------------------------------------------------------------
(* pullPrefix.                                                               *)

\* It refuses to extract over a directory.  (Scratch directories an earlier pull left
\* have names of their own, and are not followed further.)
PullPrefix ==
  /\ FetchAt("idle")
  /\ IF dest # NoTree
     THEN /\ fetch' = [pc |-> "failed", layer |-> 0, ok |-> FALSE]
          /\ UNCHANGED <<image, tree, scratch, stuck>>
     ELSE /\ fetch' = [pc |-> "manifest", layer |-> 0, ok |-> TRUE]
          /\ image' = <<>> /\ tree' = Empty
          /\ scratch' = {} /\ stuck' = FALSE
  /\ UNCHANGED dest

\* The manifest (of an index: that of this architecture) has its digest and is well
\* formed, and the first scratch directory is made.
Manifest ==
  /\ FetchAt("manifest")
  /\ image' \in Images
  /\ scratch' = {"spool"}
  /\ FetchGo("mkdtemp")
  /\ UNCHANGED <<tree, dest, stuck>>

\* No manifest, or a malformed one; or the second directory cannot be made, which
\* leaves the first: both are made before the try.
FetchFails ==
  /\ FetchAt("manifest") \/ FetchAt("mkdtemp")
  /\ Throw("failed")
  /\ UNCHANGED <<image, tree, scratch, dest, stuck>>

Scratch ==
  /\ FetchAt("mkdtemp")
  /\ scratch' = scratch \cup {"extract"}
  /\ fetch' = [fetch EXCEPT !.pc = "download", !.layer = 1]
  /\ UNCHANGED <<image, tree, dest, stuck>>

\* downloadLayer, its content checked, into the spool file.
Downloaded ==
  /\ FetchAt("download")
  /\ FetchGo("apply")
  /\ UNCHANGED <<image, tree, scratch, dest, stuck>>

DownloadFails ==
  /\ FetchAt("download")
  /\ Throw("cleanup")
  /\ UNCHANGED <<image, tree, scratch, dest, stuck>>

Applied ==
  LET l == image[fetch.layer] IN
  /\ FetchAt("apply")
  /\ Accepted(tree, l)
  /\ ~TarFails(Whiteouts(tree, l), l)
  /\ tree' = Apply(tree, l, fetch.layer)
  /\ fetch' = IF fetch.layer < Len(image)
              THEN [fetch EXCEPT !.pc = "download", !.layer = @ + 1]
              ELSE [fetch EXCEPT !.pc = "rename"]
  /\ UNCHANGED <<image, scratch, dest, stuck>>

\* An unsafe member or marker, in archive order, or tar: of what is there or of the disk.
ApplyFails ==
  /\ FetchAt("apply")
  /\ Throw("cleanup")
  /\ UNCHANGED <<image, tree, scratch, dest, stuck>>

Assembled ==
  /\ FetchAt("rename")
  /\ \E i \in DOMAIN image : Touches(image[i])
  /\ dest' = tree
  /\ FetchGo("walk")
  /\ UNCHANGED <<image, tree, scratch, stuck>>

\* There is nothing under the prefix, it is no directory, or rename() fails.
NotAssembled ==
  /\ FetchAt("rename")
  /\ Throw("cleanup")
  /\ UNCHANGED <<image, tree, scratch, dest, stuck>>

\* assertSafeExtractedTree: a build has no use for a link out of it, or for a device.
TreeAllowed ==
  /\ FetchAt("walk")
  /\ FetchGo("cleanup")
  /\ UNCHANGED <<image, tree, scratch, dest, stuck>>

TreeRefused ==
  /\ FetchAt("walk")
  /\ Throw("cleanup")
  /\ \/ dest' = NoTree /\ UNCHANGED stuck
     \/ stuck' = TRUE /\ UNCHANGED dest
  /\ UNCHANGED <<image, tree, scratch>>

\* Mutant: the scratch directories of a pull that failed are forgotten.
CleanupIfOk ==
  /\ FetchAt("cleanup")
  /\ scratch' = IF fetch.ok THEN {} ELSE scratch
  /\ FetchGo(IF fetch.ok THEN "pulled" ELSE "failed")
  /\ UNCHANGED <<image, tree, dest, stuck>>

\* The finally block; what it throws fails a pull that had gone well.
Cleanup ==
  /\ FetchAt("cleanup")
  /\ \/ /\ scratch' = {}
        /\ FetchGo(IF fetch.ok THEN "pulled" ELSE "failed")
        /\ UNCHANGED stuck
     \/ /\ scratch' \in {{"extract"}, scratch}
        /\ Throw("failed")
        /\ stuck' = TRUE
  /\ UNCHANGED <<image, tree, dest>>

OciSteps ==
  \/ Manifest \/ FetchFails \/ Scratch
  \/ Downloaded \/ DownloadFails \/ Applied \/ ApplyFails
  \/ Assembled \/ NotAssembled \/ TreeAllowed \/ TreeRefused \/ Cleanup

-----------------------------------------------------------------------------
(* What a union mount of the layers shows: at each path, the topmost layer that   *)
(* says anything of it.  (A layer's whiteouts are about the layers below it.)      *)

Replaces(l, p) == \/ l.put[p] # "none" \/ Hidden(l, p) \/ l.outer
                  \/ p \in Kids /\ l.put[Above[p]] = "file"
Says(img, n, p) == {i \in 1 .. n : Replaces(img[i], p)}
Topmost(S)      == CHOOSE i \in S : \A j \in S : j <= i
OverlayTo(img, n) ==
  [p \in Paths |->
    LET says == Says(img, n, p)
        top  == Topmost(says)
    IN IF says = {} \/ img[top].put[p] = "none" THEN Absent
       ELSE IF img[top].put[p] = "dir" THEN Dir ELSE top]
Overlay(img) == OverlayTo(img, Len(img))

\* The part of an image that applyLayer looks at: its members under usr/local/.
InPrefix(l)  == [l EXCEPT !.outer = FALSE]
Inside(img)  == [i \in DOMAIN img |-> InPrefix(img[i])]

OciTypeOK ==
  /\ fetch \in [pc : {"idle", "manifest", "mkdtemp", "download", "apply", "rename", "walk",
                      "cleanup", "pulled", "failed"},
                layer : 0 .. MaxLayers, ok : BOOLEAN]
  /\ image \in Images \cup {<<>>}
  /\ tree \in [Paths -> Contents]
  /\ scratch \subseteq {"spool", "extract"}
  /\ dest = NoTree \/ dest \in [Paths -> Contents]
  /\ stuck \in BOOLEAN

\* Whatever the layers add, replace and hide under usr/local/, and wherever the pull
\* stops, destDir is not there or holds exactly the overlay of those members; which is
\* what a container of the image would see, if no marker above the prefix, which the
\* filter by underPrefix drops, hides usr/local as a whole.
OverlayExact ==
  dest # NoTree =>
    /\ dest = Overlay(Inside(image))
    /\ (\A i \in DOMAIN image : ~image[i].outer) => dest = Overlay(image)

\* A pull that has ended leaves destDir if it succeeded, and otherwise nothing of the
\* image on the volume, unless a rm() failed.
PullTidy ==
  ~stuck => /\ FetchAt("idle") \/ FetchAt("failed") => "extract" \notin scratch
            /\ FetchAt("failed") => dest = NoTree
            /\ FetchAt("pulled") => dest # NoTree /\ scratch = {}

=============================================================================
