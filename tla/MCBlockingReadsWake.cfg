\* One reader, one writer, two entries.
SPECIFICATION FairClientsSpec
CONSTANTS
  r1 = r1
  w1 = w1
  Readers = {r1}
  Writers = {w1}
  MaxEntries = 2
PROPERTY WriteWakes
