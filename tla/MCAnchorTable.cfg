\* The program thread and two tasks inject a scoped component and a singleton.
SPECIFICATION FairSpec
CONSTANTS
    Fibers = {f1, f2}
    Main = Main
    Components = {A, S}
    Singletons = {S}
    MaxOps <- Ops
    f1 = f1
    f2 = f2
    None = None
INVARIANTS BuiltOnce NoStranded 
PROPERTIES AnswersTrue InjectionsEnd
CHECK_DEADLOCK FALSE
