------------------------------- MODULE MCStore -------------------------------
(* The filesystem store: its transactions and readers, the index cache that   *)
(* follows them, and the tree an index is kept in.  JournalStore has the      *)
(* steps of one transaction and IndexCache what comes of many, so a behaviour *)
(* follows one of the three.                                                  *)
(*                                                                            *)
(* In the tree three tuples collide and two share a prefix; the ids under the *)
(* first make pages that split twice.                                         *)
EXTENDS MCJournalStore, IndexCache, TLC

CONSTANTS Digits, MaxDepth, PageEntries, InlineIds

VARIABLES part, tree, filed

MCFiling == ({1} \X {1, 2, 3, 4}) \union ({2, 4} \X {1, 2}) \union ({3, 5} \X {1})
MCDigests == 1 :> <<0, 0, 0>> @@ 2 :> <<0, 0, 0>> @@ 3 :> <<0, 0, 1>> @@ 4 :> <<0, 0, 0>>
             @@ 5 :> <<1, 0, 0>>
MCIdDigests == 1 :> <<0, 0, 0>> @@ 2 :> <<0, 0, 1>> @@ 3 :> <<0, 1, 0>> @@ 4 :> <<0, 0, 2>>

T == INSTANCE IndexTree WITH Filing <- MCFiling, digestTuple <- MCDigests, idDigest <- MCIdDigests

ASSUME Digested == T!DigestsAssumption

tvars == <<tree, filed>>
allVars == <<part, vars, ivars, tvars>>

\* The sides a behaviour does not follow stand still in one initial state.
NoCache ==
    /\ version = None /\ journal = None /\ primary = None /\ manifest = None /\ pages = None
    /\ progress = None /\ kept = None /\ holder = None /\ answer = None
    /\ mishaps = None /\ passes = None
NoTree == tree = None /\ filed = None

MCInit ==
  \/ part = "journal" /\ Init /\ NoCache /\ NoTree
  \/ part = "cache" /\ Init /\ CacheInit /\ NoTree
  \/ part = "tree" /\ Init /\ NoCache /\ T!TInit

JournalPart(step) == part = "journal" /\ step /\ UNCHANGED <<part, ivars, tvars>>

MCNext ==
  \/ JournalPart(Next)
  \/ part = "cache" /\ CacheNext /\ UNCHANGED <<part, vars, tvars>>
  \/ part = "tree" /\ T!TNext /\ UNCHANGED <<part, vars, ivars>>

\* The fairness of JournalStore's FairSpec.
MCSpec == MCInit /\ [][MCNext]_allVars
          /\ WF_allVars(JournalPart(WriterStep)) /\ WF_allVars(JournalPart(Begin("free")))

\* Stated and explained in IndexTree.
TreeExact == part = "tree" => T!TreeExact
==============================================================================
