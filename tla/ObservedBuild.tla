---------------------------- MODULE ObservedBuild ----------------------------
(***************************************************************************)
(* The isolated build of a school generation from an observed snapshot     *)
(* (build-school-observed.mjs): it pins its inputs, copies the allowed     *)
(* sources into a directory of its own, generates, builds and verifies     *)
(* there, and writes observed-build.json last, if nothing it started from  *)
(* has changed meanwhile.  Other programs edit the repository, the inputs  *)
(* and the output at any moment; an edit is a version never seen before.   *)
(***************************************************************************)
EXTENDS Naturals, FiniteSets, Functions

CONSTANTS Builders,  \* builds started with the same output directory
          Files,     \* source files the build copies
          EditMax    \* bound: edits by other programs

BuildAssumption == "none" \notin Builders /\ EditMax \in Nat

None == 0

VARIABLES repo,     \* version of each source file of the repository
          input,    \* version of the snapshot, its manifest and the public config
          output,   \* the output directory: its owner, or none
          tree,     \* versions in it: the copied sources, generation, public data, dist
          receipt,  \* observed-build.json
          at,       \* each builder's place
          pin,      \* input each builder pinned
          copied,   \* the copy of the sources as each builder wrote it
          listed,   \* the inventory of dist each builder took
          edits,
          states    \* history: the states the repository has been in

vars == <<repo, input, output, tree, receipt, at, pin, copied, listed, edits, states>>

Empty == [src |-> [f \in Files |-> None], generation |-> None, public |-> None, dist |-> None, built |-> {}]
NoReceipt == [owner |-> "none"]

Init ==
  /\ repo = [f \in Files |-> 1] /\ input = 1
  /\ output = "none" /\ tree = Empty /\ receipt = NoReceipt
  /\ at = [b \in Builders |-> "start"]
  /\ pin = [b \in Builders |-> None]
  /\ copied = [b \in Builders |-> [f \in Files |-> None]]
  /\ listed = [b \in Builders |-> None]
  /\ edits = 0 /\ states = {repo}

Goto(b, s) == at' = [at EXCEPT ![b] = s]
\* own: every directory the builder made is still the one it made.
Owns(b) == output = b

-----------------------------------------------------------------------------
(* Inputs are read once and pinned; the output directory must not exist.   *)

ReadInputs(b) ==
  /\ at[b] = "start"
  /\ output = "none" /\ Goto(b, "make")
  /\ pin' = [pin EXCEPT ![b] = input]
  /\ UNCHANGED <<repo, input, output, tree, receipt, copied, listed, edits, states>>

\* fs.mkdir is exclusive: of two builders one makes the directory.
Make(b) ==
  /\ at[b] = "make"
  /\ output = "none"
  /\ output' = b /\ Goto(b, "copy")
  /\ UNCHANGED <<repo, input, tree, receipt, pin, copied, listed, edits, states>>

CopyFile(b) ==
  /\ at[b] = "copy" /\ Owns(b)
  /\ \E f \in Files :
       /\ copied[b][f] = None
       /\ copied' = [copied EXCEPT ![b][f] = repo[f]]
       /\ tree' = [tree EXCEPT !.src[f] = repo[f]]
       /\ Goto(b, IF \E g \in Files \ {f} : copied[b][g] = None THEN "copy" ELSE "generate")
  /\ UNCHANGED <<repo, input, output, receipt, pin, listed, edits, states>>

\* The generator opens the inputs again, by their paths.
Generate(b) ==
  /\ at[b] = "generate" /\ Owns(b)
  /\ tree' = [tree EXCEPT !.generation = input]
  /\ Goto(b, "accept")
  /\ UNCHANGED <<repo, input, output, receipt, pin, copied, listed, edits, states>>

\* verifyObservedBuildInput: the receipt of the generation names the pinned inputs.
GenerationIsPinned(b) == tree.generation = pin[b]

Accept(b) ==
  /\ at[b] = "accept" /\ Owns(b) /\ GenerationIsPinned(b)
  /\ tree' = [tree EXCEPT !.public = tree.generation]
  /\ Goto(b, "client")
  /\ UNCHANGED <<repo, input, output, receipt, pin, copied, listed, edits, states>>

\* vite copies public/ and compiles the copied sources.
Client(b) ==
  /\ at[b] = "client" /\ Owns(b)
  /\ tree' = [tree EXCEPT !.dist = tree.public, !.built = {tree.src}]
  /\ Goto(b, "artifacts")
  /\ UNCHANGED <<repo, input, output, receipt, pin, copied, listed, edits, states>>

\* verifyCopiedArtifacts, after vite and after the pages were written.
ArtifactsAreGeneration(b) == GenerationIsPinned(b) /\ tree.dist = tree.generation

ClientArtifacts(b) ==
  /\ at[b] = "artifacts" /\ Owns(b) /\ ArtifactsAreGeneration(b)
  /\ Goto(b, "pages")
  /\ UNCHANGED <<repo, input, output, tree, receipt, pin, copied, listed, edits, states>>

\* The SSR build and gen-seo-pages compile and read the copied sources again.
Pages(b) ==
  /\ at[b] = "pages" /\ Owns(b)
  /\ tree' = [tree EXCEPT !.built = @ \union {tree.src}]
  /\ Goto(b, "verify")
  /\ UNCHANGED <<repo, input, output, receipt, pin, copied, listed, edits, states>>

\* verifyCopiedArtifacts again, once the pages are written.
PageArtifacts(b) ==
  /\ at[b] = "verify" /\ Owns(b) /\ ArtifactsAreGeneration(b)
  /\ Goto(b, "inventory")
  /\ UNCHANGED <<repo, input, output, tree, receipt, pin, copied, listed, edits, states>>

\* The inventory of dist, after verify-static-output has run over it: nothing
\* compares these bytes with the generation any more.
Inventory(b) ==
  /\ at[b] = "inventory" /\ Owns(b)
  /\ listed' = [listed EXCEPT ![b] = tree.dist]
  /\ Goto(b, "recheck")
  /\ UNCHANGED <<repo, input, output, tree, receipt, pin, copied, edits, states>>

\* The repository and the copy are both still what was copied.
SourcesUnchanged(b) == repo = copied[b] /\ tree.src = copied[b]

Recheck(b) ==
  /\ at[b] = "recheck" /\ SourcesUnchanged(b)
  /\ input = pin[b]
  /\ Goto(b, "complete")
  /\ UNCHANGED <<repo, input, output, tree, receipt, pin, copied, listed, edits, states>>

Complete(b) ==
  /\ at[b] = "complete" /\ Owns(b)
  /\ receipt.owner = "none"
  /\ receipt' = [owner |-> b, input |-> pin[b], sources |-> copied[b],
                 dist |-> listed[b], built |-> tree.built]
  /\ Goto(b, "done")
  /\ UNCHANGED <<repo, input, output, tree, pin, copied, listed, edits, states>>

\* A check that fails, a child that fails, a deadline or a kill: the output is
\* left as it is, without its receipt.
Stop(b) ==
  /\ at[b] \notin {"done", "stopped"}
  /\ Goto(b, "stopped")
  /\ UNCHANGED <<repo, input, output, tree, receipt, pin, copied, listed, edits, states>>

-----------------------------------------------------------------------------
(* Other programs.                                                         *)

Edit ==
  /\ edits < EditMax /\ edits' = edits + 1
  /\ \/ /\ \E f \in Files : repo' = [repo EXCEPT ![f] = @ + 1]
        /\ states' = states \union {repo'}
        /\ UNCHANGED <<input, tree>>
     \/ input' = input + 1 /\ UNCHANGED <<repo, tree, states>>
     \/ /\ \E f \in Files : tree.src[f] # None /\ tree' = [tree EXCEPT !.src[f] = 9]
        /\ UNCHANGED <<repo, input, states>>
     \/ /\ \E p \in {"generation", "public", "dist"} :
             tree[p] # None /\ tree' = [tree EXCEPT ![p] = 9]
        /\ UNCHANGED <<repo, input, states>>
  /\ UNCHANGED <<output, receipt, at, pin, copied, listed>>

\* The owner of the machine clears the output directory for another build.
Clear ==
  /\ output # "none" /\ edits < EditMax /\ edits' = edits + 1
  /\ output' = "none" /\ tree' = Empty /\ receipt' = NoReceipt
  /\ UNCHANGED <<repo, input, at, pin, copied, listed, states>>

Next ==
  \/ \E b \in Builders :
       \/ ReadInputs(b) \/ Make(b) \/ CopyFile(b) \/ Generate(b) \/ Accept(b)
       \/ Client(b) \/ ClientArtifacts(b) \/ Pages(b) \/ PageArtifacts(b)
       \/ Inventory(b) \/ Recheck(b) \/ Complete(b) \/ Stop(b)
  \/ Edit \/ Clear

Spec == Init /\ [][Next]_vars

-----------------------------------------------------------------------------
BuildTypeOK ==
  /\ output \in Builders \union {"none"}
  /\ receipt.owner \in Builders \union {"none"}
  /\ at \in [Builders -> {"start", "make", "copy", "generate", "accept", "client",
                          "artifacts", "pages", "verify", "inventory", "recheck", "complete", "done", "stopped"}]
  /\ edits \in 0..EditMax

\* observed-build.json names sources the repository held all together at one
\* moment, although they were copied one by one (lines 285-290).
SourcesAreOneState == receipt.owner # "none" => receipt.sources \in states

\* The bundles were compiled from the sources the receipt names: nobody edited
\* the copy between the client build, the SSR build and the receipt.
BundlesAreOfTheSources == receipt.owner # "none" => receipt.built = {receipt.sources}

\* What was packaged belongs together: the two above.
OneStateThroughout == SourcesAreOneState /\ BundlesAreOfTheSources
=============================================================================
