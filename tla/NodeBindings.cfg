SPECIFICATION BindingsSpec
CONSTANT AllowDelete = TRUE
INVARIANTS UvLoopExclusive SemOutlivesEmbed
PROPERTIES DestructorReturns ImplementsPump
