-------------------------- MODULE KanjiLanguage --------------------------
(***************************************************************************)
(* The language of the kanji application: which one the device prefers,     *)
(* how the texts of a language are loaded while another one is shown, and   *)
(* from which pack each text comes.                                         *)
(* Sources: src/web/src/kanji/i18n/packs.ts, decideLang.ts,                 *)
(* I18nProvider.tsx, ../lib/langLoading.ts, ../KanjiApp.tsx, ../main.tsx.   *)
(*                                                                         *)
(* A tag of BCP 47 is its primary language and the rest, in lower case.     *)
(***************************************************************************)
EXTENDS Naturals, Sequences, SequencesExt, FiniteSets

CONSTANTS Packs,       \* the packs there are: tag -> the keys that it holds
          Preferred,   \* the lists of tags a device may prefer
          Keys,        \* the keys of texts that are shown
          MaxChoices,  \* bound: times another language is chosen
          MaxFailures  \* bound: packs that fail to load

English == [primary |-> "en", rest |-> ""]
Langs == DOMAIN Packs

KanjiLanguageAssumption ==
    /\ English \in Langs
    /\ \A l \in Langs : Packs[l] \subseteq Keys
    /\ MaxChoices \in Nat /\ MaxFailures \in Nat

VARIABLES tags,       \* what the device prefers
          ui,         \* the packs loaded: tag -> keys; a failed one holds none
          want,       \* the language of the current learner, or of the screen
          active,     \* the one the texts are resolved in
          requested,  \* the ones asked for and not there yet (a ref)
          flight,     \* loads on their way
          effect,     \* the effect is due after this render
          done        \* history: choices made, failures

vars == <<tags, ui, want, active, requested, flight, effect, done>>

--------------------------------------------------------------------------
\* remapTag: the tags that no exact match finds.
Remapped(tag) ==
    CASE tag.primary = "zh" /\ tag.rest \in {"cn", "sg", "hans"} -> [tag EXCEPT !.rest = "hans"]
      [] tag.primary = "zh" /\ tag.rest \in {"tw", "hk", "hant"} -> [tag EXCEPT !.rest = "hant"]
      [] tag.primary \in {"pt", "fil", "es"} -> [tag EXCEPT !.rest = ""]
      [] tag = [primary |-> "tl", rest |-> ""] -> [primary |-> "fil", rest |-> ""]
      [] OTHER -> tag

Leading(tag) == [tag EXCEPT !.rest = ""]

\* What there is for a tag, the best first.
Offers(tag) == SelectSeq(<<tag, Remapped(tag), Leading(tag)>>, LAMBDA l : l \in Langs)

DetectLang(preferred) ==
    LET all == FlattenSeq([i \in DOMAIN preferred |-> Offers(preferred[i])])
    IN  IF all = <<>> THEN English ELSE Head(all)

Loaded(l) == l \in DOMAIN ui

\* resolveText: the language a key's text is taken from; English is also named
\* for a key that is shown itself.
Resolved(key) ==
    IF Loaded(active) /\ key \in ui[active] THEN [lang |-> active, bare |-> FALSE]
    ELSE IF Loaded(English) /\ key \in ui[English] THEN [lang |-> English, bare |-> FALSE]
    ELSE [lang |-> English, bare |-> TRUE]

\* decideLang: both packs are in, or what is missing and not asked for.
Needed == {want, English}
Ready == \A l \in Needed : Loaded(l)
Decided == IF Ready THEN want ELSE active
Asking(asked) == {l \in Needed : ~Loaded(l) /\ l \notin asked}
\* pruneRequested
Pruned == {l \in requested : ~Loaded(l)}

\* A pack that cannot be loaded is an empty one; one that is in stays.
Contents(l) == {Packs[l]} \cup (IF done.failures < MaxFailures THEN {{}} ELSE {})
Merged(l, keys) == IF Loaded(l) THEN ui ELSE [x \in DOMAIN ui \cup {l} |-> IF x = l THEN keys ELSE ui[x]]
Failures(l, keys) == IF keys = Packs[l] THEN 0 ELSE 1

--------------------------------------------------------------------------
\* main.tsx: the language of the learner, of the last time or of the device, and
\* English beside it, before the first render.
Init ==
    /\ tags \in Preferred
    /\ \E learner \in Langs \cup {DetectLang(tags)} : want = learner
    /\ \E failed \in SUBSET {want, English} :
         /\ Cardinality(failed) <= MaxFailures
         /\ ui = [l \in {want, English} |-> IF l \in failed THEN {} ELSE Packs[l]]
         /\ done = [choices |-> 0, failures |-> Cardinality(failed)]
    /\ active = want /\ requested = {} /\ flight = <<>> /\ effect = TRUE

\* Another learner, or another language, is chosen; the effect of the render
\* before has run.
Choose(l) ==
    /\ ~effect /\ l # want /\ done.choices < MaxChoices
    /\ want' = l /\ effect' = TRUE
    /\ done' = [done EXCEPT !.choices = @ + 1]
    /\ UNCHANGED <<tags, ui, active, requested, flight>>

\* The effect of the provider; a change of the active language runs it again.
Effect ==
    /\ effect
    /\ active' = Decided
    /\ requested' = Pruned \cup Asking(Pruned)
    /\ flight' = flight \o SetToSeq(Asking(Pruned))
    /\ effect' = (Decided # active)
    /\ UNCHANGED <<tags, ui, want, done>>

\* A pack comes, or cannot be read; loads end in any order.
Arrives(i) ==
    \E keys \in Contents(flight[i]) :
      /\ ui' = Merged(flight[i], keys)
      /\ done' = [done EXCEPT !.failures = @ + Failures(flight[i], keys)]
      /\ flight' = RemoveAt(flight, i)
      /\ effect' = (effect \/ ui' # ui)
      /\ UNCHANGED <<tags, want, active, requested>>

Next == (\E l \in Langs : Choose(l)) \/ Effect \/ \E i \in DOMAIN flight : Arrives(i)

Spec == Init /\ [][Next]_vars

\* React runs the effects of a render, and loads end, well or not.
FairSpec == Spec /\ WF_vars(Effect) /\ \A i \in 1 .. 2 : WF_vars(i \in DOMAIN flight /\ Arrives(i))

--------------------------------------------------------------------------
(* Properties.                                                             *)

KanjiLanguageTypeOK ==
    /\ DOMAIN ui \subseteq Langs /\ \A l \in DOMAIN ui : ui[l] \in SUBSET Keys
    /\ {want, active} \subseteq Langs /\ requested \subseteq Langs
    /\ \A i \in DOMAIN flight : flight[i] \in Langs

\* The texts never change to another language before it and English are in
\* (decideLang.ts 28-53): no text is shown in English, nor as its bare key, that
\* the pack of the active language or the English one holds, unless the pack
\* failed to load.
NoFlash ==
    \A key \in Keys :
      /\ Resolved(key).lang # active => key \notin Packs[active] \/ ui[active] = {}
      /\ Resolved(key).bare => key \notin Packs[English] \/ ui[English] = {}

\* No language is on its way twice, however often the provider renders
\* (I18nProvider.tsx 78-93).
LoadedOnce == IsInjective(flight)

\* A device that prefers a language there is a pack for never starts in a
\* language it prefers less, and one whose languages have no pack at all starts
\* in English (packs.ts 176-199).
DeviceIsHeard ==
    LET exact == {i \in DOMAIN tags : tags[i] \in Langs}
        got   == DetectLang(tags)
    IN  /\ \A i \in exact : \E j \in 1 .. i : got.primary \in {tags[j].primary, Remapped(tags[j]).primary}
        /\ got \in Langs

==========================================================================
