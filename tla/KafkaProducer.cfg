\* Two calls of Publish, two of Close, on one producer.
CONSTANTS
    Stale = Stale
    Older = Older
    Publishers = {p1, p2}
    Closers = {c1, c2}
    Free = Free
    NoValue = NoValue
    BlankKey = ""
    Blank = ""
    TraceParent = "traceparent"
    TrimSpace <- TrimmedKeys
    Fold <- FoldedKeys
    UserHeaders <- SomeHeaders
    RemoteSpans = {Stale, Older}
    BrokerLists <- SomeBrokers
    Topics <- SomeTopics
SYMMETRY PublisherSymmetry
SPECIFICATION Spec
INVARIANTS
    TypeOK
    AnswersAreTrue
    TraceContinues
PROPERTY
    PublishesUntilClosed
