------------------------------ MODULE MCAiglib ------------------------------
(* The two layers of aiglib side by side: a behaviour either builds a netlist*)
(* gate by gate, or performs one operation on words.                         *)
EXTENDS Circuit

CONSTANTS Sizes
VARIABLES word1, word2, word_arg, word_result

Words == INSTANCE Word WITH a <- word1, b <- word2, arg <- word_arg, result <- word_result

words   == <<word1, word2, word_arg, word_result>>
NoWords == word1 = <<>> /\ word2 = <<>> /\ word_arg = 0 /\ word_result = <<>>

LibInit == Init /\ (NoWords \/ Words!Init)
LibNext == \/ word1 = <<>> /\ UNCHANGED words /\ Next
           \/ word1 # <<>> /\ UNCHANGED vars /\ Words!Next
LibSpec == LibInit /\ [][LibNext]_<<vars, words>>

(* The operations on words compute what they are named for.                *)
WordsCompute == Words!WordsCompute
=============================================================================
