SPECIFICATION Spec
INVARIANTS Denotes AnswersExact RoundsToNearest
PROPERTIES NumeralsExact
