--------------------------- MODULE MCJournalReader ---------------------------
(* JournalReader with a journal of three records of every kind.             *)
EXTENDS JournalReader

Everywhere == {"beginning", "end"}
AllKinds == {"plain", "bad", "large", "huge"}
PlainAndHuge == {"plain", "huge"}
=============================================================================
