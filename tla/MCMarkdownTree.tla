---------------------------- MODULE MCMarkdownTree ----------------------------
(* Model-checking instance of MarkdownTree.                                  *)
EXTENDS MarkdownTree, TLC

CONSTANTS meta, ops, episode, dated, manual, moment, profile,
          Bodies    \* the bodies markdown holds at the start

\* One document of each kind of section, for two agents and the fleet, and a second
\* episode: its file has a date before the title, the title of the first.
MCOwnerOf ==
    [d \in Docs |-> CASE d \in {episode, dated, moment} -> meta [] d = manual -> ops
                      [] d = profile -> Fleet]
MCTypeOf ==
    [d \in Docs |-> CASE d \in {episode, dated} -> "episode" [] d = manual -> "knowledge"
                      [] d = moment -> "emotional" [] d = profile -> "user_profile"]
MCHomeOf == [d \in Docs |-> IF d = dated THEN episode ELSE d]

\* Core memory and files each with either side, both or none; the dated episode,
\* which may be there beside the other, as core memory.
Side == {"live", "kept"}
MCTrees ==
    {[d \in Docs |->
        LET there == IF d \in {episode, manual} THEN files ELSE core
        IN  [live |-> IF "live" \notin there THEN None
                      ELSE IF d \in {episode, dated, manual} THEN Line ELSE body,
             kept |-> IF "kept" \notin there \/ d = profile THEN None ELSE body]]
     : core \in SUBSET Side, files \in SUBSET Side, body \in Bodies}

\* The shared layer, then meta (moments, knowledge, episodes), then ops.
MCRank ==
    [d \in Docs |-> CASE d = profile -> 1 [] d = moment -> 2 [] d = dated -> 3
                      [] d = episode -> 4 [] d = manual -> 5]
=============================================================================
