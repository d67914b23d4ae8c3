CONSTANTS
    Threads = {t1, t2}
SPECIFICATION FairSpec
PROPERTIES SomeoneGetsIt
