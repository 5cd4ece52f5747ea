SPECIFICATION Spec
CONSTANTS
    t1 = t1
    t2 = t2
    t3 = t3
    t4 = t4
    j1 = j1
    d1 = d1
    e1 = e1
    home = home
    tree = tree
    s1 = s1
    s2 = s2
    s3 = s3
    s4 = s4
    s5 = s5
    Root = Root
    Person = Person
    Driver = Driver
    Free = Free
    Task = {t1, t2, t3}
    Job = {j1}
    Delivery = {d1}
    Edit = {e1}
    Holder <- Run
    Checkout = {home, tree}
    Home = home
    Session = {s1, s2, s3, s4, s5}
    Plans <- OnePlan
    MaxConcurrent = 2
    Capacity = 2
    MaxPanics = 1
INVARIANT StepNeverWaitsForJob
CHECK_DEADLOCK FALSE
