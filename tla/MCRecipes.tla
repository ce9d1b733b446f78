----------------------------- MODULE MCRecipes -----------------------------
EXTENDS Recipes, TLC

Alike == Permutations(Request) \cup Permutations(Workflow) \cup Permutations(Definition)
=============================================================================
