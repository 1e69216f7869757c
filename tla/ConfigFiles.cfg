SPECIFICATION Spec
CONSTANTS
  Files <- SomeFiles
  Vals <- SomeVals
  Truthy <- SomeTruthy
  Headed <- SomeHeaded
  Cut <- SomeCut
  Nil = Nil
  Absent = Absent
INVARIANTS TypeOK LastWins ReadsShippedYaml
