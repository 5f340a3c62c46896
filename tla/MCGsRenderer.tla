---------------------------- MODULE MCGsRenderer ----------------------------
EXTENDS GsRenderer, TLC

CONSTANTS p, q

AllKinds == {"Textured", "Gouraud", "T8", "FeedbackLinear", "FeedbackNearest",
             "Feedback", "Triangle", "Line", "Empty", "EmptyFeedback"}

MCPages == {p, q}
Symmetry == Permutations(MCPages)
=============================================================================
