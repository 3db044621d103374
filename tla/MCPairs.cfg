\* Messages that share the outbox, the journal and the mailbox.
CONSTANTS
    m1 = m1
    m2 = m2
    a1 = a1
    a2 = a2
    k1 = k1
    k2 = k2
    NoMessage = NoMessage
    NoKey = NoKey
    placement = placement
    raised = raised
    inbox = inbox
    archive = archive
    trash = trash
SPECIFICATION Spec
SYMMETRY Symmetry
INVARIANTS
    OneAtATime
    FullWithinCapacity
    JournalRoomSuffices
    
