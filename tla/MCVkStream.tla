----------------------------- MODULE MCVkStream -----------------------------
EXTENDS VkStream

DrawsMC == {[uniforms |-> <<1>>, vertices |-> 2]}
=============================================================================
