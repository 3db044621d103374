\* One message in the outbox, and one in the journal.
CONSTANTS
    m1 = m1
    a1 = a1
    k1 = k1
    k2 = k2
    NoMessage = NoMessage
    NoKey = NoKey
    unread = unread
    placement = placement
    raised = raised
    inbox = inbox
    archive = archive
    trash = trash
SPECIFICATION Spec
INVARIANTS
    DoubtIsSettledFirst
PROPERTIES
    WorkSettles
